---- MODULE Spec2Model ----
(***************************************************************************)
(* OTP lifecycle and rate limiting of go-otp-auth: authService.SendOTP and *)
(* authService.VerifyOTP over the Redis-backed otpRepository.  Every Redis *)
(* command is one atomic step; the local computation that follows a        *)
(* command belongs to the step of that command.  Time is counted in ticks *)
(* of TickMinutes minutes.                                                 *)
(***************************************************************************)
EXTENDS Integers, Sequences, FiniteSets, TLC

\* ------------------------------------------------------------------ bounds
NumProcs == 2          \* concurrent callers (request goroutines)
MaxTime == 6           \* last tick the clock reaches in sequential runs
MaxTimeConc == 2       \* last tick the clock reaches in concurrent runs
MaxCalls == 5          \* calls made in a concurrent run
MaxFaults == 2         \* store commands that fail in a run with failures
MaxTail == 15       \* further digits of a phone given to the validator
MaxGenLen == 2      \* lengths given to GenerateOTP with every outcome
MaxConfigured == 4  \* largest OTP_MAX_ATTEMPTS of a configuration
MaxJwtWaits == 3    \* half expiry periods a token is kept before it is presented

\* ----------------------------------------------------------- configuration
OTPLength == 6                 \* config.OTP.Length
ExpiryMinutes == 2             \* config.OTP.ExpiryMinutes
MaxAttempts == 3               \* config.OTP.MaxAttempts
RateLimitWindowMinutes == 10   \* config.OTP.RateLimitWindow.Minutes()
MaxRequestsPerWindow == 3      \* documented issuance limit per window
JWTExpiryHours == 24           \* config.JWT.ExpiryHours

Procs == 1..NumProcs

\* One tick of the clock is the OTP expiry; the rate limit window is a whole
\* number of ticks.  Minutes(m) is time.Duration(m) * time.Minute in ticks.
TickMinutes == ExpiryMinutes
Minutes(m) == m \div TickMinutes

\* --------------------------------------------------------------- strings
\* A Go string is modelled as the sequence of its (ASCII) characters.
Digit == {"0", "1", "2", "3", "4", "5", "6", "7", "8", "9"}
Space == {" ", "\t", "\n"}
digits == <<"0", "1", "2", "3", "4", "5", "6", "7", "8", "9">>

RECURSIVE TrimLeft(_)
TrimLeft(s) ==
    IF s = <<>> THEN s
    ELSE IF Head(s) \in Space THEN TrimLeft(Tail(s)) ELSE s

RECURSIVE TrimRight(_)
TrimRight(s) ==
    IF s = <<>> THEN s
    ELSE IF s[Len(s)] \in Space THEN TrimRight(SubSeq(s, 1, Len(s) - 1)) ELSE s

\* strings.TrimSpace
TrimSpace(s) == TrimRight(TrimLeft(s))

\* strings.Contains
Contains(s, sub) ==
    \E i \in 1..(Len(s) - Len(sub) + 1) : SubSeq(s, i, i + Len(sub) - 1) = sub

\* regexp ^\+\d{7,15}$: a leading zero is let through.
PhoneRegexMatchAnyDigit(s) ==
    /\ Len(s) >= 8
    /\ Len(s) <= 16
    /\ s[1] = "+"
    /\ \A i \in 2..Len(s) : s[i] \in Digit

\* regexp ^\+[1-9]\d{6,14}$
PhoneRegexMatch(s) ==
    /\ Len(s) >= 8
    /\ Len(s) <= 16
    /\ s[1] = "+"
    /\ s[2] \in Digit \ {"0"}
    /\ \A i \in 3..Len(s) : s[i] \in Digit

NormalizePhoneNumber(phoneNumber) == TrimSpace(phoneNumber)

ValidatePhoneNumber(phoneNumber) ==
    IF Len(phoneNumber) < 8 \/ Len(phoneNumber) > 16 THEN FALSE
    ELSE IF Contains(phoneNumber, <<".", ".">>) \/ Contains(phoneNumber, <<"-", "-">>)
         THEN FALSE
    ELSE PhoneRegexMatch(phoneNumber)

\* Result of a validating helper: <<value, error>>, error "" meaning nil.
ValidateAndNormalizePhone(phoneNumber) ==
    LET n == TrimSpace(NormalizePhoneNumber(phoneNumber)) IN
    IF Len(n) > 20 \/ Len(n) < 8 THEN << <<>>, "InvalidPhoneNumber" >>
    ELSE IF ~ValidatePhoneNumber(n) THEN << <<>>, "InvalidPhoneNumber" >>
    ELSE << n, "" >>

ValidateOTPCode(otpCode, expectedLength) ==
    LET c == TrimSpace(otpCode) IN
    IF Len(c) # expectedLength THEN << <<>>, "InvalidOTP" >>
    ELSE IF \E i \in 1..Len(c) : c[i] \notin Digit THEN << <<>>, "InvalidOTP" >>
    ELSE << c, "" >>

\* A GenerateOTP that formats one random number in decimal, so that leading
\* zeros are lost.
GenerateOTPNumeric(length, draws) ==
    LET all == [i \in 1..length |-> digits[draws[i] + 1]]
        nz == { i \in 1..length : all[i] # "0" }
    IN IF length = 0 THEN <<>>
       ELSE IF nz = {} THEN << "0" >>
       ELSE SubSeq(all, CHOOSE i \in nz : \A j \in nz : i <= j, length)

\* GenerateOTP over the numbers the secure random source returns (draws[i]
\* is the i-th rand.Int result, in 0..9).
GenerateOTP(length, draws) == [i \in 1..length |-> digits[draws[i] + 1]]

\* A GenerateOTP that keeps the digits it has when the random source fails.
GenerateOTPPartial(length, draws) ==
    IF Len(draws) < length
    THEN << [i \in 1..Len(draws) |-> digits[draws[i] + 1]], "" >>
    ELSE << GenerateOTP(length, draws), "" >>

\* GenerateOTP with its error: the random source fails at the read after the
\* last of `draws`, and then the result is "" and the error.
GenerateOTPErr(length, draws) ==
    IF Len(draws) < length
    THEN << <<>>, "GenerateFailure" >>
    ELSE << GenerateOTP(length, draws), "" >>

\* subtle.ConstantTimeCompare: 1 exactly when the byte slices are equal.
ConstantTimeCompare(x, y) ==
    IF Len(x) # Len(y) THEN 0
    ELSE IF \A i \in 1..Len(x) : x[i] = y[i] THEN 1 ELSE 0

\* The first position at which two different slices of equal length differ.
FirstDiff(x, y) ==
    CHOOSE i \in 1..Len(x) : x[i] # y[i] /\ \A j \in 1..(i - 1) : x[j] = y[j]

\* A comparison that stops at the first position that differs.
CompareStepsEarly(x, y) ==
    IF Len(x) # Len(y) THEN <<>>
    ELSE IF x = y THEN [i \in 1..Len(x) |-> i]
    ELSE [i \in 1..FirstDiff(x, y) |-> i]

\* subtle.ConstantTimeCompare: the positions it reads, in order.  It reads
\* every position of slices of equal length, whatever they hold.
CompareSteps(x, y) ==
    IF Len(x) # Len(y) THEN <<>> ELSE [i \in 1..Len(x) |-> i]

\* ---------------------------------------------------------------- inputs
PhoneA == <<"+", "1", "4", "1", "5", "5", "5", "5">>
PhoneB == <<"+", "1", "4", "1", "5", "5", "5", "6">>
ShortPhone == <<"+", "1", "2">>

\* Phones given in sequential runs: a valid number with surrounding white
\* space, a number without the plus sign, one with a leading zero, a short one.
RawPhones ==
    { <<" ">> \o PhoneA \o <<" ">>,
      <<"1", "4", "1", "5", "5", "5", "5", "5">>,
      <<"+", "0", "4", "1", "5", "5", "5", "5">>,
      ShortPhone }

\* Phones given in concurrent runs.
ConcRawPhones == { PhoneA, ShortPhone }

\* Phones given in runs with two subscribers.
TwoRawPhones == { PhoneA, PhoneB, ShortPhone }

\* Arguments of direct calls of the helpers.  Phones: a plus sign or none, a
\* first digit, up to MaxTail further digits; strings with a letter, an inner
\* space, doubled dots or dashes, a second plus sign; each with and without
\* white space around it.
Fives(k) == [i \in 1..k |-> "5"]

UtilBodies ==
    { << "+", d >> \o Fives(k) : d \in {"1", "9", "0"}, k \in 0..MaxTail }
    \cup { << "1" >> \o Fives(k) : k \in 6..9 }
    \cup { <<>>, << "+" >>,
           << "+", "1", "4", "1", "5", "a", "5", "5" >>,
           << "+", "1", "4", "1", "5", " ", "5", "5", "5" >>,
           << "+", "1", ".", ".", "5", "5", "5", "5" >>,
           << "+", "1", "-", "-", "5", "5", "5", "5" >>,
           << "+", "+", "1", "4", "1", "5", "5", "5" >>,
           << "+", "1" >> \o Fives(20) }

UtilPads == { <<>>, << " " >>, << "\t", " " >>, << "\n" >> }

UtilPhones == { l \o b \o r : l \in UtilPads, b \in UtilBodies, r \in UtilPads }

\* The validators' results on the inputs, computed once.
PhoneCheck ==
    [r \in RawPhones \cup ConcRawPhones \cup TwoRawPhones |-> ValidateAndNormalizePhone(r)]

Phones == { PhoneCheck[r][1] : r \in { x \in DOMAIN PhoneCheck : PhoneCheck[x][2] = "" } }

\* Outcomes of the random source for one GenerateOTP call.
RandDraws == { <<1, 2, 3, 4, 5, 6>>, <<6, 5, 4, 3, 2, 1>> }

RawCodes ==
    { <<"1", "2", "3", "4", "5", "6">>,
      <<"6", "5", "4", "3", "2", "1">>,
      <<"1", "2", "3", "4", "5", "7">>,
      <<"1", "2", "3", "4", "5">>,
      <<"1", "2", "a", "4", "5", "6">> }

\* Inputs of the concurrent runs: one outcome of the random source, the code
\* it gives and a code it does not give.
ConcDraws == { <<1, 2, 3, 4, 5, 6>> }
ConcRawCodes == { <<"1", "2", "3", "4", "5", "6">>, <<"6", "5", "4", "3", "2", "1">> }

\* What the random source gave before it failed: nothing, or three numbers.
FailDraws == { <<>>, <<1, 2, 3>> }

\* GenerateOTP: every outcome of the random source for lengths up to
\* MaxGenLen, and the outcomes of the sequential runs for the configured length.
UtilDraws ==
    UNION { [1..n -> 0..9] : n \in 0..MaxGenLen } \cup RandDraws

CodeCheck == [c \in RawCodes |-> ValidateOTPCode(c, OTPLength)]

\* VerifyOTP inputs: every code with the phones that pass validation, one
\* code with the phones that do not (their code is never looked at).
VerifyInputs(phones, codes) ==
    { in \in phones \X codes :
        PhoneCheck[in[1]][2] = "" \/ in[2] = <<"1", "2", "3", "4", "5", "6">> }

\* ------------------------------------------------------------------ state
VARIABLES
    now,          \* wall clock, in ticks
    otp,          \* Redis keys otp:<phone>
    rate,         \* Redis keys rate_limit:<phone>
    users,        \* user repository: phone -> user ID, 0 when there is none
    nextID,       \* next primary key of the user repository
    loc,          \* per caller: position in SendOTP / VerifyOTP and its locals
    obs,          \* per caller: what its call has observed and emitted (history)
    sentOK,       \* per phone: SendOTP successes during the counter's life (history)
    lastIssueAt,  \* per phone: time of the last successful SendOTP (history)
    rejSince,     \* per phone: a SendOTP was rate limited since then (history)
    cmpCount,     \* per challenge: codes compared against it (history)
    accCount,     \* per challenge: verifications that returned success (history)
    calls,        \* calls begun, in runs that bound them
    faults,       \* store commands that have failed
    config,       \* config.OTP, of which the runs vary MaxAttempts
    guessed       \* per phone: codes compared during the counter's life (history)

vars == << now, otp, rate, users, nextID, loc, obs, sentOK, lastIssueAt, rejSince,
           cmpCount, accCount, calls, faults, config, guessed >>

\* config.Load with no environment variable set.
DefaultConfig == [ MaxAttempts |-> MaxAttempts ]

NoKey == [nil |-> TRUE]      \* redis.Nil: the key does not exist
NoTTL == -1                  \* the key exists and has no expiry
KeepTTL == -1                \* redis.KeepTTL
NoKeyTTL == -2               \* TTL reply for a key that does not exist
NoCode == <<>>
NoPhone == <<>>
Never == 0 - 1
Untracked == 0 - 1          \* history that the run does not record

\* Identities of challenges (history): one per StoreOTP, reused once no store
\* entry and no caller refers to it.
Ids == 1..(Cardinality(Phones) + 2 * NumProcs + 1)

\* History: what a caller remembers of its previous call.
\* Remembered are a successful call (its phone and code, and when the issued
\* code expires) and a verification that met too many attempts.
NoCall == [op |-> "none", phone |-> NoPhone, result |-> "", code |-> NoCode,
           expiresAt |-> Never]

\* No HTTP response has been written.
NoStatus == 0

IdleLoc ==
    [ op |-> "none", pc |-> "idle", raw |-> <<>>, rawCode |-> <<>>, phone |-> NoPhone,
      code |-> NoCode,
      count |-> 0, stored |-> NoKey, inc |-> NoKey, ttl |-> 0,
      result |-> "", token |-> NoKey, ops |-> <<>>, status |-> NoStatus ]

IdleObs ==
    [ prev |-> NoCall, fresh |-> FALSE, found |-> FALSE,
      stale |-> FALSE, compared |-> FALSE, same |-> FALSE, steps |-> <<>>,
      attempts |-> 0, nth |-> 0, notFound |-> FALSE, existed |-> FALSE,
      replaced |-> FALSE, failed |-> FALSE, winAlive |-> FALSE, winSent |-> 0,
      elapsed |-> FALSE, rejSince |-> FALSE, incrTo |-> 0, emitted |-> <<>>,
      issuedExp |-> Never ]

Previous(l, o) ==
    IF l.pc = "done" /\ l.result = "OK"
    THEN [op |-> l.op, phone |-> l.phone, result |-> l.result, code |-> l.code,
          expiresAt |-> IF now < o.issuedExp THEN o.issuedExp ELSE Never]
    ELSE IF l.pc = "done" /\ l.result = "TooManyAttempts"
    THEN [NoCall EXCEPT !.op = l.op, !.phone = l.phone, !.result = l.result]
    ELSE NoCall

\* History: a remembered expiry that has passed is forgotten.
Forget(o, t) ==
    [o EXCEPT !.prev.expiresAt = IF @ # Never /\ t < @ THEN @ ELSE Never,
              !.issuedExp = IF @ # Never /\ t < @ THEN @ ELSE Never]

LiveIds(o, l) ==
    { o[ph].val.id : ph \in { x \in Phones : o[x] # NoKey } }
      \cup { l[p].stored.id : p \in { x \in Procs : l[x].stored # NoKey } }
      \cup { l[p].inc.id : p \in { x \in Procs : l[x].inc # NoKey } }

NewId(o, l) ==
    CHOOSE i \in Ids : i \notin LiveIds(o, l) /\ \A j \in 1..(i - 1) : j \in LiveIds(o, l)

Gc(f, o, l) == [i \in Ids |-> IF i \in LiveIds(o, l) THEN f[i] ELSE 0]

Init ==
    /\ now = 0
    /\ otp = [ph \in Phones |-> NoKey]
    /\ rate = [ph \in Phones |-> NoKey]
    /\ users = [ph \in Phones |-> 0]
    /\ nextID = 1
    /\ loc = [p \in Procs |-> IdleLoc]
    /\ obs = [p \in Procs |-> IdleObs]
    /\ sentOK = [ph \in Phones |-> 0]
    /\ lastIssueAt = [ph \in Phones |-> Never]
    /\ rejSince = [ph \in Phones |-> FALSE]
    /\ cmpCount = [i \in Ids |-> 0]
    /\ accCount = [i \in Ids |-> 0]
    /\ calls = 0
    /\ faults = 0
    /\ config = DefaultConfig
    /\ guessed = [ph \in Phones |-> Untracked]

\* The service starts with OTP_MAX_ATTEMPTS set to some positive number and
\* the other options at their defaults.
InitConfig ==
    /\ now = 0
    /\ otp = [ph \in Phones |-> NoKey]
    /\ rate = [ph \in Phones |-> NoKey]
    /\ users = [ph \in Phones |-> 0]
    /\ nextID = 1
    /\ loc = [p \in Procs |-> IdleLoc]
    /\ obs = [p \in Procs |-> IdleObs]
    /\ sentOK = [ph \in Phones |-> 0]
    /\ lastIssueAt = [ph \in Phones |-> Never]
    /\ rejSince = [ph \in Phones |-> FALSE]
    /\ cmpCount = [i \in Ids |-> 0]
    /\ accCount = [i \in Ids |-> 0]
    /\ calls = 0
    /\ faults = 0
    /\ config \in { [ MaxAttempts |-> n ] : n \in 1..MaxConfigured }
    /\ guessed = [ph \in Phones |-> Untracked]

\* A direct call of a helper of pkg/utils: its arguments, and once it has
\* returned its value and error.
UtilCall(op, raw, length, draws) ==
    [ op |-> op, pc |-> "call", raw |-> raw, length |-> length, draws |-> draws,
      value |-> <<>>, error |-> "" ]

UtilCalls ==
    { UtilCall("ValidateAndNormalizePhone", r, 0, <<>>) : r \in UtilPhones }
    \cup { UtilCall("GenerateOTP", <<>>, Len(d), d) : d \in UtilDraws }

InitUtil ==
    /\ now = 0
    /\ otp = [ph \in Phones |-> NoKey]
    /\ rate = [ph \in Phones |-> NoKey]
    /\ users = [ph \in Phones |-> 0]
    /\ nextID = 1
    /\ \E c \in UtilCalls : loc = [p \in Procs |-> IF p = 1 THEN c ELSE IdleLoc]
    /\ obs = [p \in Procs |-> IdleObs]
    /\ sentOK = [ph \in Phones |-> 0]
    /\ lastIssueAt = [ph \in Phones |-> Never]
    /\ rejSince = [ph \in Phones |-> FALSE]
    /\ cmpCount = [i \in Ids |-> 0]
    /\ accCount = [i \in Ids |-> 0]
    /\ calls = 0
    /\ faults = 0
    /\ config = DefaultConfig
    /\ guessed = [ph \in Phones |-> Untracked]

\* ------------------------------------------------------- Redis commands
\* SET key value with go-redis' expiration argument: > 0 sets EX, KeepTTL
\* keeps the key's expiry, anything else stores the key without expiry.
SetCmd(old, val, ttl) ==
    [ val |-> val,
      exp |-> IF ttl > 0 THEN now + ttl
              ELSE IF ttl = KeepTTL /\ old # NoKey THEN old.exp
              ELSE NoTTL ]

\* TTL key
TTLCmd(old) ==
    IF old = NoKey THEN NoKeyTTL
    ELSE IF old.exp = NoTTL THEN NoTTL
    ELSE old.exp - now

\* INCR key alone: the counter never expires.
IncrCmd(old, windowMinutes) ==
    [ count |-> IF old = NoKey THEN 1 ELSE old.count + 1,
      exp |-> IF old = NoKey THEN NoTTL ELSE old.exp ]

\* INCR key, and EXPIRE only for a counter that has no expiry yet: the window
\* runs from the first request.
IncrExpireOnceCmd(old, windowMinutes) ==
    [ count |-> IF old = NoKey THEN 1 ELSE old.count + 1,
      exp |-> IF old = NoKey THEN now + Minutes(windowMinutes) ELSE old.exp ]

\* MULTI; INCR key; EXPIRE key window; EXEC
IncrExpireCmd(old, windowMinutes) ==
    [ count |-> IF old = NoKey THEN 1 ELSE old.count + 1,
      exp |-> now + Minutes(windowMinutes) ]

\* Redis drops a key once its expiry is reached.
Expired(k, t) == k # NoKey /\ k.exp # NoTTL /\ k.exp <= t

\* The keys of a phone's challenge and of its rate counter.
OTPKey(phoneNumber) == << "o", "t", "p", ":" >> \o phoneNumber
RateLimitKey(phoneNumber) ==
    << "r", "a", "t", "e", "_", "l", "i", "m", "i", "t", ":" >> \o phoneNumber

\* ----------------------------------------------------------- repository
\* StoreOTP: the value written by SET.
StoreOTPValue(phoneNumber, code, expiryMinutes, id) ==
    [ phone |-> phoneNumber, code |-> code, expiresAt |-> now + Minutes(expiryMinutes),
      attempts |-> 0, id |-> id ]

\* A GetOTP that trusts the store to have dropped what has expired.
NotPastExpiry(val) == FALSE

\* GetOTP: time.Now().After(otp.ExpiresAt)
PastExpiry(val) == now > val.expiresAt

\* An IncrementAttempts that counts a wrong code twice.
BumpTwice(val) == [val EXCEPT !.attempts = @ + 2]

\* An IncrementAttempts that writes the record back as it read it.
KeepAttempts(val) == val

\* IncrementAttempts: otp.Attempts++
BumpAttempts(val) == [val EXCEPT !.attempts = @ + 1]

\* GetRateLimitCount: 0 for redis.Nil
RateCount(k) == IF k = NoKey THEN 0 ELSE k.count

\* ---------------------------------------------------------------- service
\* A rate limit check that lets the request at the limit through.
RateLimitedAbove(count) == count > MaxAttempts

\* SendOTP: count >= s.config.OTP.MaxAttempts
RateLimited(count) == count >= config.MaxAttempts

\* An attempts check that lets the attempt at the limit through.
TooManyAttemptsAbove(val) == val.attempts > MaxAttempts

\* VerifyOTP: storedOTP.Attempts >= s.config.OTP.MaxAttempts
TooManyAttempts(val) == val.attempts >= config.MaxAttempts

\* VerifyOTP: subtle.ConstantTimeCompare(stored, submitted) != 1
Mismatch(val, otpCode) == ConstantTimeCompare(val.code, otpCode) # 1

\* The call returns; its locals are gone.
Finish(l, result) ==
    [l EXCEPT !.pc = "done", !.result = result, !.count = 0, !.stored = NoKey,
              !.inc = NoKey, !.ttl = 0]

Called(l, name) == [l EXCEPT !.ops = Append(@, name)]

\* A caller makes one call after the other; in a run that bounds its calls
\* every call has a goroutine of its own and at most `budget` calls begin.
Unbounded == 0 - 1
Begin(p, budget) ==
    /\ IF budget = Unbounded THEN loc[p].pc \in {"idle", "done"} /\ UNCHANGED calls
       ELSE loc[p].pc = "idle" /\ calls < budget /\ calls' = calls + 1
    /\ UNCHANGED << faults, config, guessed >>

\* ------------------------------------------------------------------ clock
\* History: an issuance more than a window old is remembered as a window old.
Age(issuedAt, t) ==
    IF issuedAt # Never /\ t - issuedAt > Minutes(RateLimitWindowMinutes)
    THEN t - Minutes(RateLimitWindowMinutes) ELSE issuedAt

\* A tick passes; Redis drops the keys whose expiry is reached.
Tick(maxT) ==
    /\ now < maxT
    /\ now' = now + 1
    /\ otp' = [ph \in Phones |-> IF Expired(otp[ph], now + 1) THEN NoKey ELSE otp[ph]]
    /\ rate' = [ph \in Phones |-> IF Expired(rate[ph], now + 1) THEN NoKey ELSE rate[ph]]
    /\ cmpCount' = Gc(cmpCount, otp', loc)
    /\ accCount' = Gc(accCount, otp', loc)
    /\ sentOK' = [ph \in Phones |-> IF rate'[ph] = NoKey THEN 0 ELSE sentOK[ph]]
    /\ lastIssueAt' = [ph \in Phones |-> Age(lastIssueAt[ph], now + 1)]
    /\ obs' = [p \in Procs |-> Forget(obs[p], now + 1)]
    /\ guessed' = [ph \in Phones |-> IF guessed[ph] # Untracked /\ rate'[ph] = NoKey
                                     THEN 0 ELSE guessed[ph]]
    /\ UNCHANGED << users, nextID, loc, rejSince, calls, faults, config >>

\* ---------------------------------------------------------------- SendOTP
\* A SendOTP that reads the rate counter before it validates the phone.
SendStartCounting(p, raw, budget) ==
    /\ Begin(p, budget)
    /\ LET v == PhoneCheck[raw]
           l == Called([IdleLoc EXCEPT !.op = "send", !.raw = raw, !.phone = v[1]],
                       "GetRateLimitCount")
       IN /\ loc' = [loc EXCEPT ![p] = IF v[2] # "" THEN Finish(l, v[2])
                                       ELSE [l EXCEPT !.pc = "s_store"]]
          /\ obs' = [obs EXCEPT ![p] = [IdleObs EXCEPT !.prev = Previous(loc[p], obs[p])]]
    /\ cmpCount' = Gc(cmpCount, otp, loc')
    /\ accCount' = Gc(accCount, otp, loc')
    /\ UNCHANGED << now, otp, rate, users, nextID, sentOK, lastIssueAt, rejSince >>

\* The call begins: ValidateAndNormalizePhone.
SendStart(p, raw, budget) ==
    /\ Begin(p, budget)
    /\ LET v == PhoneCheck[raw]
           l == [IdleLoc EXCEPT !.op = "send", !.raw = raw, !.phone = v[1]]
       IN /\ loc' = [loc EXCEPT ![p] = IF v[2] # "" THEN Finish(l, v[2])
                                       ELSE [l EXCEPT !.pc = "s_rate"]]
          /\ obs' = [obs EXCEPT ![p] =
                        [IdleObs EXCEPT !.prev = Previous(loc[p], obs[p])]]
    /\ cmpCount' = Gc(cmpCount, otp, loc')
    /\ accCount' = Gc(accCount, otp, loc')
    /\ UNCHANGED << now, otp, rate, users, nextID, sentOK, lastIssueAt, rejSince >>

\* A rate limit check that counts the requests it rejects.
SendRateCounting(p) ==
    /\ loc[p].pc = "s_rate"
    /\ LET ph == loc[p].phone
           count == RateCount(rate[ph])
           l == Called([loc[p] EXCEPT !.count = count], "GetRateLimitCount")
       IN /\ loc' = [loc EXCEPT ![p] = IF RateLimited(count)
                                       THEN Finish(l, "RateLimitExceeded")
                                       ELSE [l EXCEPT !.pc = "s_store"]]
          /\ rate' = [rate EXCEPT ![ph] = IF RateLimited(count)
                                          THEN IncrExpireCmd(@, RateLimitWindowMinutes)
                                          ELSE @]
          /\ rejSince' = [rejSince EXCEPT ![ph] = @ \/ RateLimited(count)]
    /\ UNCHANGED << now, otp, users, nextID, obs, sentOK, lastIssueAt, cmpCount, accCount,
                    calls, faults, config, guessed >>

\* A rate limit check that also counts every other phone that has a counter.
SendRateGlobal(p) ==
    /\ loc[p].pc = "s_rate"
    /\ LET count == RateCount(rate[loc[p].phone])
                    + Cardinality({ b \in Phones \ {loc[p].phone} : rate[b] # NoKey })
           l == Called([loc[p] EXCEPT !.count = count], "GetRateLimitCount")
       IN /\ loc' = [loc EXCEPT ![p] = IF RateLimited(count)
                                       THEN Finish(l, "RateLimitExceeded")
                                       ELSE [l EXCEPT !.pc = "s_store"]]
    /\ UNCHANGED << now, otp, rate, users, nextID, obs, sentOK, lastIssueAt, rejSince,
                    cmpCount, accCount, calls, faults, config, guessed >>

\* GetRateLimitCount, then the rate limit check.
SendRate(p) ==
    /\ loc[p].pc = "s_rate"
    /\ LET ph == loc[p].phone
           count == RateCount(rate[ph])
           l == Called([loc[p] EXCEPT !.count = count], "GetRateLimitCount")
       IN /\ loc' = [loc EXCEPT ![p] = IF RateLimited(count)
                                       THEN Finish(l, "RateLimitExceeded")
                                       ELSE [l EXCEPT !.pc = "s_store"]]
          /\ obs' = [obs EXCEPT ![p] =
                        [@ EXCEPT !.winAlive = (rate[ph] # NoKey),
                                  !.winSent = sentOK[ph],
                                  !.elapsed = (lastIssueAt[ph] # Never
                                               /\ now >= lastIssueAt[ph]
                                                         + Minutes(RateLimitWindowMinutes)),
                                  !.rejSince = rejSince[ph]]]
          /\ rejSince' = [rejSince EXCEPT ![ph] = @ \/ RateLimited(count)]
    /\ UNCHANGED << now, otp, rate, users, nextID, sentOK, lastIssueAt, cmpCount, accCount, calls, faults, config, guessed >>

\* A SendOTP that stores a challenge only for a phone that has none (SET NX).
SendStoreAbsent(p, draws) ==
    /\ loc[p].pc = "s_store"
    /\ LET ph == loc[p].phone
           otpCode == GenerateOTP(OTPLength, draws)
           val == StoreOTPValue(ph, otpCode, ExpiryMinutes, NewId(otp, loc))
       IN /\ otp' = [otp EXCEPT ![ph] = IF @ = NoKey
                                        THEN SetCmd(@, val, Minutes(ExpiryMinutes))
                                        ELSE @]
          /\ loc' = [loc EXCEPT ![p] =
                        Called([@ EXCEPT !.code = otpCode, !.pc = "s_incr"], "StoreOTP")]
          /\ obs' = [obs EXCEPT ![p] =
                        [@ EXCEPT !.issuedExp = val.expiresAt,
                                  !.replaced = (otp[ph] # NoKey
                                                /\ otp[ph].val.attempts > 0)]]
          /\ cmpCount' = Gc(cmpCount, otp', loc')
          /\ accCount' = Gc(accCount, otp', loc')
    /\ UNCHANGED << now, rate, users, nextID, sentOK, lastIssueAt, rejSince, calls, faults, config, guessed >>

\* GenerateOTP, then StoreOTP (SET otp:<phone> with the expiry).
SendStore(p, draws) ==
    /\ loc[p].pc = "s_store"
    /\ LET ph == loc[p].phone
           otpCode == GenerateOTP(OTPLength, draws)
           val == StoreOTPValue(ph, otpCode, ExpiryMinutes, NewId(otp, loc))
       IN /\ otp' = [otp EXCEPT ![ph] = SetCmd(otp[ph], val, Minutes(ExpiryMinutes))]
          /\ loc' = [loc EXCEPT ![p] =
                        Called([@ EXCEPT !.code = otpCode, !.pc = "s_incr"], "StoreOTP")]
          /\ obs' = [obs EXCEPT ![p] =
                        [@ EXCEPT !.issuedExp = val.expiresAt,
                                  !.replaced = (otp[ph] # NoKey
                                                /\ otp[ph].val.attempts > 0)]]
          /\ cmpCount' = Gc([cmpCount EXCEPT ![val.id] = 0], otp', loc')
          /\ accCount' = Gc([accCount EXCEPT ![val.id] = 0], otp', loc')
    /\ UNCHANGED << now, rate, users, nextID, sentOK, lastIssueAt, rejSince, calls, faults, config, guessed >>

\* An IncrementRateLimit that writes back the count of the rate limit check
\* plus one (GET, then SET with the expiry) instead of MULTI INCR EXPIRE EXEC.
SendIncrStale(p) ==
    /\ loc[p].pc = "s_incr"
    /\ LET ph == loc[p].phone
           new == [ count |-> loc[p].count + 1,
                    exp |-> now + Minutes(RateLimitWindowMinutes) ]
       IN /\ rate' = [rate EXCEPT ![ph] = new]
          /\ loc' = [loc EXCEPT ![p] = Called([@ EXCEPT !.pc = "s_log"], "IncrementRateLimit")]
          /\ obs' = [obs EXCEPT ![p] = [@ EXCEPT !.incrTo = new.count]]
    /\ UNCHANGED << now, otp, users, nextID, sentOK, lastIssueAt, rejSince, cmpCount,
                    accCount, calls, faults, config, guessed >>

\* IncrementRateLimit (MULTI INCR EXPIRE EXEC).
SendIncr(p) ==
    /\ loc[p].pc = "s_incr"
    /\ LET ph == loc[p].phone
           new == IncrExpireCmd(rate[ph], RateLimitWindowMinutes)
       IN /\ rate' = [rate EXCEPT ![ph] = new]
          /\ loc' = [loc EXCEPT ![p] = Called([@ EXCEPT !.pc = "s_log"], "IncrementRateLimit")]
          /\ obs' = [obs EXCEPT ![p] = [@ EXCEPT !.incrTo = new.count]]
    /\ UNCHANGED << now, otp, users, nextID, sentOK, lastIssueAt, rejSince, cmpCount,
                    accCount, calls, faults, config, guessed >>

\* LogOTP, and SendOTP returns nil.
SendLog(p) ==
    /\ loc[p].pc = "s_log"
    /\ LET ph == loc[p].phone
       IN /\ loc' = [loc EXCEPT ![p] = Finish(@, "OK")]
          /\ obs' = [obs EXCEPT ![p] = [@ EXCEPT !.emitted = Append(@, << ph, loc[p].code >>)]]
          /\ sentOK' = [sentOK EXCEPT ![ph] = IF rate[ph] = NoKey THEN 0 ELSE @ + 1]
          /\ lastIssueAt' = [lastIssueAt EXCEPT ![ph] = now]
          /\ rejSince' = [rejSince EXCEPT ![ph] = FALSE]
    /\ UNCHANGED << now, otp, rate, users, nextID, cmpCount, accCount, calls, faults, config, guessed >>

\* The caller takes the result; the goroutine ends.
Return(p) ==
    /\ loc[p].pc = "done"
    /\ loc' = [loc EXCEPT ![p] = IdleLoc]
    /\ obs' = [obs EXCEPT ![p] = IdleObs]
    /\ cmpCount' = Gc(cmpCount, otp, loc')
    /\ accCount' = Gc(accCount, otp, loc')
    /\ UNCHANGED << now, otp, rate, users, nextID, sentOK, lastIssueAt, rejSince, calls, faults, config, guessed >>

\* -------------------------------------------------------------- VerifyOTP
\* A VerifyOTP that fetches the challenge before it validates the code.
VerifyStartFetching(p, raw, rawCode, budget) ==
    /\ Begin(p, budget)
    /\ LET v == PhoneCheck[raw]
           c == CodeCheck[rawCode]
           l == [IdleLoc EXCEPT !.op = "verify", !.raw = raw, !.rawCode = rawCode,
                                !.phone = v[1]]
       IN /\ loc' = [loc EXCEPT ![p] =
                        IF v[2] # "" THEN Finish(l, v[2])
                        ELSE IF c[2] # "" THEN Finish(Called(l, "GetOTP"), c[2])
                        ELSE [l EXCEPT !.code = c[1], !.pc = "v_get"]]
          /\ obs' = [obs EXCEPT ![p] = [IdleObs EXCEPT !.prev = Previous(loc[p], obs[p])]]
    /\ cmpCount' = Gc(cmpCount, otp, loc')
    /\ accCount' = Gc(accCount, otp, loc')
    /\ UNCHANGED << now, otp, rate, users, nextID, sentOK, lastIssueAt, rejSince >>

\* The call begins: ValidateAndNormalizePhone, then ValidateOTPCode.
VerifyStart(p, raw, rawCode, budget) ==
    /\ Begin(p, budget)
    /\ LET v == PhoneCheck[raw]
           c == CodeCheck[rawCode]
           l == [IdleLoc EXCEPT !.op = "verify", !.raw = raw, !.rawCode = rawCode,
                                !.phone = v[1]]
       IN /\ loc' = [loc EXCEPT ![p] =
                        IF v[2] # "" THEN Finish(l, v[2])
                        ELSE IF c[2] # "" THEN Finish(l, c[2])
                        ELSE [l EXCEPT !.code = c[1], !.pc = "v_get"]]
          /\ obs' = [obs EXCEPT ![p] = [IdleObs EXCEPT !.prev = Previous(loc[p], obs[p])]]
    /\ cmpCount' = Gc(cmpCount, otp, loc')
    /\ accCount' = Gc(accCount, otp, loc')
    /\ UNCHANGED << now, otp, rate, users, nextID, sentOK, lastIssueAt, rejSince >>

\* GetOTP (GET otp:<phone>), then the checks VerifyOTP makes on the
\* challenge it got: absent, too many attempts, comparison.
VerifyGet(p) ==
    /\ loc[p].pc = "v_get"
    /\ LET ph == loc[p].phone
           k == otp[ph]
           l == Called(loc[p], "GetOTP")
           compares == k # NoKey /\ ~PastExpiry(k.val) /\ ~TooManyAttempts(k.val)
       IN /\ loc' = [loc EXCEPT ![p] =
                        IF k = NoKey THEN Finish(l, "OTPExpired")
                        ELSE IF PastExpiry(k.val) THEN [l EXCEPT !.pc = "v_getdel"]
                        ELSE IF TooManyAttempts(k.val)
                             THEN [l EXCEPT !.stored = k.val, !.pc = "v_toomany"]
                        ELSE IF Mismatch(k.val, loc[p].code)
                             THEN [l EXCEPT !.stored = k.val, !.pc = "ia_get"]
                        ELSE [l EXCEPT !.stored = k.val, !.pc = "v_del"]]
          /\ obs' = [obs EXCEPT ![p] =
                        [@ EXCEPT !.fresh = (obs[p].prev.expiresAt # Never
                                             /\ now < obs[p].prev.expiresAt),
                                  !.attempts = IF k = NoKey THEN 0 ELSE k.val.attempts,
                                  !.found = (k # NoKey /\ ~PastExpiry(k.val)),
                                  !.stale = (k # NoKey /\ now > k.val.expiresAt),
                                  !.compared = compares,
                                  !.steps = IF compares
                                            THEN CompareSteps(k.val.code, loc[p].code)
                                            ELSE <<>>,
                                  !.same = (k # NoKey /\ ~Mismatch(k.val, loc[p].code)),
                                  !.nth = IF k = NoKey THEN 0 ELSE cmpCount[k.val.id]]]
          /\ cmpCount' = IF compares THEN [cmpCount EXCEPT ![k.val.id] = @ + 1]
                         ELSE cmpCount
          /\ guessed' = IF compares /\ guessed[ph] # Untracked
                        THEN [guessed EXCEPT ![ph] = @ + 1]
                        ELSE guessed
    /\ UNCHANGED << now, otp, rate, users, nextID, sentOK, lastIssueAt, rejSince, accCount, calls, faults, config >>

\* GetOTP found the challenge past its ExpiresAt: DeleteOTP, and VerifyOTP
\* returns ErrOTPExpired.
VerifyGetDel(p) ==
    /\ loc[p].pc = "v_getdel"
    /\ otp' = [otp EXCEPT ![loc[p].phone] = NoKey]
    /\ loc' = [loc EXCEPT ![p] = Finish(Called(@, "DeleteOTP"), "OTPExpired")]
    /\ cmpCount' = Gc(cmpCount, otp', loc')
    /\ accCount' = Gc(accCount, otp', loc')
    /\ UNCHANGED << now, rate, users, nextID, obs, sentOK, lastIssueAt, rejSince, calls, faults, config, guessed >>

\* Too many attempts: DeleteOTP, and VerifyOTP returns ErrTooManyAttempts.
VerifyTooMany(p) ==
    /\ loc[p].pc = "v_toomany"
    /\ otp' = [otp EXCEPT ![loc[p].phone] = NoKey]
    /\ loc' = [loc EXCEPT ![p] = Finish(Called(@, "DeleteOTP"), "TooManyAttempts")]
    /\ cmpCount' = Gc(cmpCount, otp', loc')
    /\ accCount' = Gc(accCount, otp', loc')
    /\ UNCHANGED << now, rate, users, nextID, obs, sentOK, lastIssueAt, rejSince, calls, faults, config, guessed >>

\* IncrementAttempts, first command: GetOTP.  Without a challenge it fails,
\* VerifyOTP logs the failure and returns ErrInvalidOTP.
IncGet(p) ==
    /\ loc[p].pc = "ia_get"
    /\ LET k == otp[loc[p].phone]
           l == Called(loc[p], "IncrementAttempts")
       IN /\ loc' = [loc EXCEPT ![p] =
                        IF k = NoKey THEN Finish(l, "InvalidOTP")
                        ELSE IF PastExpiry(k.val) THEN [l EXCEPT !.pc = "ia_getdel"]
                        ELSE [l EXCEPT !.inc = BumpAttempts(k.val), !.pc = "ia_ttl"]]
          /\ obs' = [obs EXCEPT ![p] =
                        [@ EXCEPT !.notFound = (k = NoKey \/ PastExpiry(k.val))]]
    /\ UNCHANGED << now, otp, rate, users, nextID, sentOK, lastIssueAt, rejSince,
                    cmpCount, accCount, calls, faults, config, guessed >>

\* IncrementAttempts: its GetOTP found the challenge past its ExpiresAt and
\* deletes it; IncrementAttempts fails and VerifyOTP returns ErrInvalidOTP.
IncGetDel(p) ==
    /\ loc[p].pc = "ia_getdel"
    /\ otp' = [otp EXCEPT ![loc[p].phone] = NoKey]
    /\ loc' = [loc EXCEPT ![p] = Finish(@, "InvalidOTP")]
    /\ cmpCount' = Gc(cmpCount, otp', loc')
    /\ accCount' = Gc(accCount, otp', loc')
    /\ UNCHANGED << now, rate, users, nextID, obs, sentOK, lastIssueAt, rejSince, calls, faults, config, guessed >>

\* IncrementAttempts: TTL otp:<phone>.
IncTTL(p) ==
    /\ loc[p].pc = "ia_ttl"
    /\ loc' = [loc EXCEPT ![p] = [@ EXCEPT !.ttl = TTLCmd(otp[loc[p].phone]), !.pc = "ia_set"]]
    /\ UNCHANGED << now, otp, rate, users, nextID, obs, sentOK, lastIssueAt, rejSince,
                    cmpCount, accCount, calls, faults, config, guessed >>

\* IncrementAttempts: SET otp:<phone> with the TTL read; VerifyOTP returns
\* ErrInvalidOTP.
IncSet(p) ==
    /\ loc[p].pc = "ia_set"
    /\ otp' = [otp EXCEPT ![loc[p].phone] = SetCmd(@, loc[p].inc, loc[p].ttl)]
    /\ loc' = [loc EXCEPT ![p] = Finish(@, "InvalidOTP")]
    /\ cmpCount' = Gc(cmpCount, otp', loc')
    /\ accCount' = Gc(accCount, otp', loc')
    /\ UNCHANGED << now, rate, users, nextID, obs, sentOK, lastIssueAt, rejSince, calls, faults, config, guessed >>

\* A verification that leaves the challenge in the store.
VerifyKeep(p) ==
    /\ loc[p].pc = "v_del"
    /\ loc' = [loc EXCEPT ![p] = [@ EXCEPT !.pc = "v_user"]]
    /\ UNCHANGED << now, otp, rate, users, nextID, obs, sentOK, lastIssueAt, rejSince,
                    cmpCount, accCount, calls, faults, config, guessed >>

\* The code matched: DeleteOTP.
VerifyDel(p) ==
    /\ loc[p].pc = "v_del"
    /\ otp' = [otp EXCEPT ![loc[p].phone] = NoKey]
    /\ loc' = [loc EXCEPT ![p] = Called([@ EXCEPT !.pc = "v_user"], "DeleteOTP")]
    /\ cmpCount' = Gc(cmpCount, otp', loc')
    /\ accCount' = Gc(accCount, otp', loc')
    /\ UNCHANGED << now, rate, users, nextID, obs, sentOK, lastIssueAt, rejSince, calls, faults, config, guessed >>

\* jwtManager.GenerateToken: the claims the token carries.
GenerateToken(userID, phoneNumber) == [uid |-> userID, phone |-> phoneNumber]

Succeed(l, id, ph) == Finish([l EXCEPT !.token = GenerateToken(id, ph)], "OK")

\* A VerifyOTP that creates a user without looking for one.
VerifyUserBlind(p) ==
    /\ loc[p].pc = "v_user"
    /\ loc' = [loc EXCEPT ![p] = [@ EXCEPT !.pc = "v_create"]]
    /\ UNCHANGED << now, otp, rate, users, nextID, obs, sentOK, lastIssueAt, rejSince,
                    cmpCount, accCount, calls, faults, config, guessed >>

\* userRepo.GetByPhoneNumber; for a known user the token is generated and
\* VerifyOTP returns the session.
VerifyUser(p) ==
    /\ loc[p].pc = "v_user"
    /\ LET ph == loc[p].phone
           found == users[ph] # 0
       IN /\ loc' = [loc EXCEPT ![p] = IF found THEN Succeed(@, users[ph], ph)
                                       ELSE [@ EXCEPT !.pc = "v_create"]]
          /\ obs' = [obs EXCEPT ![p] = [@ EXCEPT !.existed = found]]
          /\ accCount' = IF found THEN [accCount EXCEPT ![loc[p].stored.id] = @ + 1]
                         ELSE accCount
    /\ UNCHANGED << now, otp, rate, users, nextID, sentOK, lastIssueAt, rejSince,
                    cmpCount, calls, faults, config, guessed >>

\* userRepo.Create; the token is generated and VerifyOTP returns the session.
VerifyCreate(p) ==
    /\ loc[p].pc = "v_create"
    /\ LET ph == loc[p].phone
       IN /\ users' = [users EXCEPT ![ph] = nextID]
          /\ nextID' = nextID + 1
          /\ loc' = [loc EXCEPT ![p] = Succeed(@, nextID, ph)]
          /\ accCount' = [accCount EXCEPT ![loc[p].stored.id] = @ + 1]
    /\ UNCHANGED << now, otp, rate, obs, sentOK, lastIssueAt, rejSince, cmpCount, calls, faults, config, guessed >>

\* -------------------------------------------------- store command failures
\* A Redis command fails (connection error, context deadline): it has no
\* effect on the store and the repository method returns its error.
Failed(o) == [o EXCEPT !.failed = TRUE]

\* One more command fails, of the MaxFaults that do in a run.
Fault == faults < MaxFaults /\ faults' = faults + 1

\* GetRateLimitCount fails: SendOTP returns "failed to check rate limit".
SendRateFail(p) ==
    /\ Fault
    /\ loc[p].pc = "s_rate"
    /\ loc' = [loc EXCEPT ![p] = Finish(Called(@, "GetRateLimitCount"), "StoreFailure")]
    /\ obs' = [obs EXCEPT ![p] = Failed(@)]
    /\ UNCHANGED << now, otp, rate, users, nextID, sentOK, lastIssueAt, rejSince,
                    cmpCount, accCount, calls, config, guessed >>

\* A SendOTP that goes on to IncrementRateLimit when StoreOTP has failed.
SendStoreFailIgnored(p, draws) ==
    /\ Fault
    /\ loc[p].pc = "s_store"
    /\ loc' = [loc EXCEPT ![p] =
                  Called([@ EXCEPT !.code = GenerateOTP(OTPLength, draws),
                                   !.pc = "s_incr"], "StoreOTP")]
    /\ obs' = [obs EXCEPT ![p] = Failed(@)]
    /\ UNCHANGED << now, otp, rate, users, nextID, sentOK, lastIssueAt, rejSince,
                    cmpCount, accCount, calls, config, guessed >>

\* StoreOTP fails after GenerateOTP: SendOTP returns "failed to store OTP".
SendStoreFail(p, draws) ==
    /\ Fault
    /\ loc[p].pc = "s_store"
    /\ loc' = [loc EXCEPT ![p] =
                  Finish(Called([@ EXCEPT !.code = GenerateOTP(OTPLength, draws)],
                                "StoreOTP"), "StoreFailure")]
    /\ obs' = [obs EXCEPT ![p] = Failed(@)]
    /\ UNCHANGED << now, otp, rate, users, nextID, sentOK, lastIssueAt, rejSince,
                    cmpCount, accCount, calls, config, guessed >>

\* GenerateOTP with a random source that fails: SendOTP returns "failed to
\* generate OTP" before StoreOTP; without the error it goes on to StoreOTP.
SendGenerateFail(p, draws) ==
    /\ loc[p].pc = "s_store"
    /\ LET ph == loc[p].phone
           gen == GenerateOTPErr(OTPLength, draws)
           val == StoreOTPValue(ph, gen[1], ExpiryMinutes, NewId(otp, loc))
       IN IF gen[2] # ""
          THEN /\ loc' = [loc EXCEPT ![p] = Finish(@, "GenerateFailure")]
               /\ UNCHANGED << otp, obs, cmpCount, accCount >>
          ELSE /\ otp' = [otp EXCEPT ![ph] = SetCmd(otp[ph], val, Minutes(ExpiryMinutes))]
               /\ loc' = [loc EXCEPT ![p] =
                             Called([@ EXCEPT !.code = gen[1], !.pc = "s_incr"], "StoreOTP")]
               /\ obs' = [obs EXCEPT ![p] = [@ EXCEPT !.issuedExp = val.expiresAt]]
               /\ cmpCount' = Gc([cmpCount EXCEPT ![val.id] = 0], otp', loc')
               /\ accCount' = Gc([accCount EXCEPT ![val.id] = 0], otp', loc')
    /\ UNCHANGED << now, rate, users, nextID, sentOK, lastIssueAt, rejSince, calls, faults, config, guessed >>

\* A SendOTP that logs the code before it increments the counter, so that a
\* failing IncrementRateLimit comes after the emission.
SendIncrFailLogged(p) ==
    /\ Fault
    /\ loc[p].pc = "s_incr"
    /\ loc' = [loc EXCEPT ![p] = Finish(Called(@, "IncrementRateLimit"), "StoreFailure")]
    /\ obs' = [obs EXCEPT ![p] =
                  Failed([@ EXCEPT !.emitted = Append(@, << loc[p].phone, loc[p].code >>)])]
    /\ UNCHANGED << now, otp, rate, users, nextID, sentOK, lastIssueAt, rejSince,
                    cmpCount, accCount, calls, config, guessed >>

\* IncrementRateLimit fails: SendOTP returns "failed to increment rate limit".
SendIncrFail(p) ==
    /\ Fault
    /\ loc[p].pc = "s_incr"
    /\ loc' = [loc EXCEPT ![p] = Finish(Called(@, "IncrementRateLimit"), "StoreFailure")]
    /\ obs' = [obs EXCEPT ![p] = Failed(@)]
    /\ UNCHANGED << now, otp, rate, users, nextID, sentOK, lastIssueAt, rejSince,
                    cmpCount, accCount, calls, config, guessed >>

\* GetOTP fails: VerifyOTP returns "failed to get OTP".
VerifyGetFail(p) ==
    /\ Fault
    /\ loc[p].pc = "v_get"
    /\ loc' = [loc EXCEPT ![p] = Finish(Called(@, "GetOTP"), "StoreFailure")]
    /\ obs' = [obs EXCEPT ![p] = Failed(@)]
    /\ UNCHANGED << now, otp, rate, users, nextID, sentOK, lastIssueAt, rejSince,
                    cmpCount, accCount, calls, config, guessed >>

\* DeleteOTP fails.  GetOTP and the too-many-attempts branch drop its error,
\* the branch of a matching code logs it: the call goes on as after a delete.
DeleteFail(p) ==
    /\ Fault
    /\ loc[p].pc \in {"v_getdel", "v_toomany", "v_del", "ia_getdel"}
    /\ loc' = [loc EXCEPT ![p] =
                  IF loc[p].pc = "v_getdel" THEN Finish(Called(@, "DeleteOTP"), "OTPExpired")
                  ELSE IF loc[p].pc = "v_toomany"
                       THEN Finish(Called(@, "DeleteOTP"), "TooManyAttempts")
                  ELSE IF loc[p].pc = "v_del"
                       THEN Called([@ EXCEPT !.pc = "v_user"], "DeleteOTP")
                  ELSE Finish(@, "InvalidOTP")]
    /\ obs' = [obs EXCEPT ![p] = Failed(@)]
    /\ cmpCount' = Gc(cmpCount, otp, loc')
    /\ accCount' = Gc(accCount, otp, loc')
    /\ UNCHANGED << now, otp, rate, users, nextID, sentOK, lastIssueAt, rejSince, calls, config, guessed >>

\* IncrementAttempts: its GetOTP fails, "OTP not found"; VerifyOTP logs the
\* failure and returns ErrInvalidOTP.
IncGetFail(p) ==
    /\ Fault
    /\ loc[p].pc = "ia_get"
    /\ loc' = [loc EXCEPT ![p] = Finish(Called(@, "IncrementAttempts"), "InvalidOTP")]
    /\ obs' = [obs EXCEPT ![p] = Failed(@)]
    /\ cmpCount' = Gc(cmpCount, otp, loc')
    /\ accCount' = Gc(accCount, otp, loc')
    /\ UNCHANGED << now, otp, rate, users, nextID, sentOK, lastIssueAt, rejSince, calls, config, guessed >>

\* IncrementAttempts: TTL fails; Val() gives the zero duration.
IncTTLFail(p) ==
    /\ Fault
    /\ loc[p].pc = "ia_ttl"
    /\ loc' = [loc EXCEPT ![p] = [@ EXCEPT !.ttl = 0, !.pc = "ia_set"]]
    /\ obs' = [obs EXCEPT ![p] = Failed(@)]
    /\ UNCHANGED << now, otp, rate, users, nextID, sentOK, lastIssueAt, rejSince,
                    cmpCount, accCount, calls, config, guessed >>

\* IncrementAttempts: SET fails; VerifyOTP logs the failure and returns
\* ErrInvalidOTP.
IncSetFail(p) ==
    /\ Fault
    /\ loc[p].pc = "ia_set"
    /\ loc' = [loc EXCEPT ![p] = Finish(@, "InvalidOTP")]
    /\ obs' = [obs EXCEPT ![p] = Failed(@)]
    /\ cmpCount' = Gc(cmpCount, otp, loc')
    /\ accCount' = Gc(accCount, otp, loc')
    /\ UNCHANGED << now, otp, rate, users, nextID, sentOK, lastIssueAt, rejSince, calls, config, guessed >>

\* --------------------------------------------------------- specifications
Step(p, draws) ==
    \/ SendRate(p)
    \/ \E d \in draws : SendStore(p, d)
    \/ SendIncr(p)
    \/ SendLog(p)
    \/ VerifyGet(p)
    \/ VerifyGetDel(p)
    \/ VerifyTooMany(p)
    \/ IncGet(p)
    \/ IncGetDel(p)
    \/ IncTTL(p)
    \/ IncSet(p)
    \/ VerifyDel(p)
    \/ VerifyUser(p)
    \/ VerifyCreate(p)

Start(p, phones, codes, budget) ==
    \/ \E raw \in phones : SendStart(p, raw, budget)
    \/ \E in \in VerifyInputs(phones, codes) : VerifyStart(p, in[1], in[2], budget)

\* Callers run concurrently, each call in a goroutine of its own.
Next ==
    \/ \E p \in Procs : Start(p, ConcRawPhones, ConcRawCodes, MaxCalls)
    \/ \E p \in Procs : Step(p, ConcDraws)
    \/ \E p \in Procs : Return(p)
    \/ Tick(MaxTimeConc)

Spec == Init /\ [][Next]_vars

\* The steps of SendOTP alone.
SendStep(p, draws) ==
    \/ SendRate(p)
    \/ \E d \in draws : SendStore(p, d)
    \/ SendIncr(p)
    \/ SendLog(p)

\* Concurrent callers that only request codes.
NextSends ==
    \/ \E p \in Procs : \E raw \in ConcRawPhones : SendStart(p, raw, MaxCalls)
    \/ \E p \in Procs : SendStep(p, ConcDraws)
    \/ \E p \in Procs : Return(p)
    \/ Tick(MaxTimeConc)

SpecSends == Init /\ [][NextSends]_vars

\* One call at a time: a single caller that makes one call after the other.
NextSeq ==
    \/ Start(1, RawPhones, RawCodes, Unbounded)
    \/ Step(1, RandDraws)
    \/ Tick(MaxTime)

SpecSeq == Init /\ [][NextSeq]_vars

StepFail(p, draws) ==
    \/ SendRateFail(p)
    \/ \E d \in draws : SendStoreFail(p, d)
    \/ \E d \in FailDraws : SendGenerateFail(p, d)
    \/ SendIncrFail(p)
    \/ VerifyGetFail(p)
    \/ DeleteFail(p)
    \/ IncGetFail(p)
    \/ IncTTLFail(p)
    \/ IncSetFail(p)

\* One call at a time, with store commands that may fail.
NextFail ==
    \/ Start(1, ConcRawPhones, ConcRawCodes, Unbounded)
    \/ Step(1, ConcDraws)
    \/ StepFail(1, ConcDraws)
    \/ Tick(MaxTimeConc)

SpecFail == Init /\ [][NextFail]_vars

\* ------------------------------------------------------------- handlers
\* AuthHandler.VerifyOTP without the case for ErrInvalidPhoneNumber.
VerifyOTPStatusNoPhone(err) ==
    IF err = "OK" THEN 200
    ELSE IF err \in {"InvalidOTP", "OTPExpired", "TooManyAttempts"} THEN 401
    ELSE 500

\* AuthHandler.SendOTP: the status for what authService.SendOTP returned.
SendOTPStatus(err) ==
    IF err = "OK" THEN 200
    ELSE IF err = "RateLimitExceeded" THEN 429
    ELSE IF err = "InvalidPhoneNumber" THEN 400
    ELSE 500

\* AuthHandler.VerifyOTP: the status for what authService.VerifyOTP returned.
VerifyOTPStatus(err) ==
    IF err = "OK" THEN 200
    ELSE IF err = "InvalidOTP" THEN 401
    ELSE IF err = "OTPExpired" THEN 401
    ELSE IF err = "TooManyAttempts" THEN 401
    ELSE IF err = "InvalidPhoneNumber" THEN 400
    ELSE 500

\* A request whose body BodyParser cannot parse: 400, the service not called.
HandlerBadBody(p, op, budget) ==
    /\ Begin(p, budget)
    /\ loc' = [loc EXCEPT ![p] = [IdleLoc EXCEPT !.op = op, !.pc = "responded",
                                                  !.status = 400]]
    /\ obs' = [obs EXCEPT ![p] = [IdleObs EXCEPT !.prev = Previous(loc[p], obs[p])]]
    /\ UNCHANGED << now, otp, rate, users, nextID, sentOK, lastIssueAt, rejSince,
                    cmpCount, accCount >>

\* The service call has returned: the handler writes the response.
Respond(p) ==
    /\ loc[p].pc = "done"
    /\ loc' = [loc EXCEPT ![p] =
                  [@ EXCEPT !.pc = "responded",
                            !.status = IF loc[p].op = "send"
                                       THEN SendOTPStatus(loc[p].result)
                                       ELSE VerifyOTPStatus(loc[p].result)]]
    /\ UNCHANGED << now, otp, rate, users, nextID, obs, sentOK, lastIssueAt, rejSince,
                    cmpCount, accCount, calls, faults, config, guessed >>

\* The response is sent; the request is over.
Close(p) ==
    /\ loc[p].pc = "responded"
    /\ loc' = [loc EXCEPT ![p] = IdleLoc]
    /\ obs' = [obs EXCEPT ![p] = IdleObs]
    /\ cmpCount' = Gc(cmpCount, otp, loc')
    /\ accCount' = Gc(accCount, otp, loc')
    /\ UNCHANGED << now, otp, rate, users, nextID, sentOK, lastIssueAt, rejSince, calls,
                    faults, config, guessed >>

\* One HTTP request at a time, MaxCalls requests in all, with store commands
\* and a random source that may fail.
NextHttp ==
    \/ Start(1, ConcRawPhones, ConcRawCodes, MaxCalls)
    \/ \E op \in {"send", "verify"} : HandlerBadBody(1, op, MaxCalls)
    \/ Step(1, ConcDraws)
    \/ StepFail(1, ConcDraws)
    \/ Respond(1)
    \/ Close(1)
    \/ Tick(MaxTimeConc)

SpecHttp == Init /\ [][NextHttp]_vars

\* ------------------------------------------------------ identity failures
\* userRepo.GetByPhoneNumber fails with an error other than record not
\* found: VerifyOTP returns "failed to get user".
VerifyUserFail(p) ==
    /\ Fault
    /\ loc[p].pc = "v_user"
    /\ loc' = [loc EXCEPT ![p] = Finish(@, "UserFailure")]
    /\ obs' = [obs EXCEPT ![p] = Failed(@)]
    /\ cmpCount' = Gc(cmpCount, otp, loc')
    /\ accCount' = Gc(accCount, otp, loc')
    /\ UNCHANGED << now, otp, rate, users, nextID, sentOK, lastIssueAt, rejSince, calls, config, guessed >>

\* A userRepo.Create that reports an error for a row it has inserted.
VerifyCreateFailKept(p) ==
    /\ Fault
    /\ loc[p].pc = "v_create"
    /\ users' = [users EXCEPT ![loc[p].phone] = nextID]
    /\ nextID' = nextID + 1
    /\ loc' = [loc EXCEPT ![p] = Finish(@, "UserFailure")]
    /\ obs' = [obs EXCEPT ![p] = Failed(@)]
    /\ cmpCount' = Gc(cmpCount, otp, loc')
    /\ accCount' = Gc(accCount, otp, loc')
    /\ UNCHANGED << now, otp, rate, sentOK, lastIssueAt, rejSince, calls, config, guessed >>

\* userRepo.Create fails: no user is created and VerifyOTP returns "failed
\* to create user".
VerifyCreateFail(p) ==
    /\ Fault
    /\ loc[p].pc = "v_create"
    /\ loc' = [loc EXCEPT ![p] = Finish(@, "UserFailure")]
    /\ obs' = [obs EXCEPT ![p] = Failed(@)]
    /\ cmpCount' = Gc(cmpCount, otp, loc')
    /\ accCount' = Gc(accCount, otp, loc')
    /\ UNCHANGED << now, otp, rate, users, nextID, sentOK, lastIssueAt, rejSince, calls, config, guessed >>

\* One call at a time, MaxCalls calls in all, with store commands, a random
\* source and a user repository that may fail.
NextIdentity ==
    \/ Start(1, ConcRawPhones, ConcRawCodes, MaxCalls)
    \/ Step(1, ConcDraws)
    \/ StepFail(1, ConcDraws)
    \/ VerifyUserFail(1)
    \/ VerifyCreateFail(1)
    \/ Return(1)
    \/ Tick(MaxTimeConc)

SpecIdentity == Init /\ [][NextIdentity]_vars

\* One call at a time, under every configured OTP.MaxAttempts, with the
\* codes compared during the life of a phone's rate counter recorded.
InitGuess ==
    /\ now = 0
    /\ otp = [ph \in Phones |-> NoKey]
    /\ rate = [ph \in Phones |-> NoKey]
    /\ users = [ph \in Phones |-> 0]
    /\ nextID = 1
    /\ loc = [p \in Procs |-> IdleLoc]
    /\ obs = [p \in Procs |-> IdleObs]
    /\ sentOK = [ph \in Phones |-> 0]
    /\ lastIssueAt = [ph \in Phones |-> Never]
    /\ rejSince = [ph \in Phones |-> FALSE]
    /\ cmpCount = [i \in Ids |-> 0]
    /\ accCount = [i \in Ids |-> 0]
    /\ calls = 0
    /\ faults = 0
    /\ config \in { [ MaxAttempts |-> n ] : n \in 1..MaxConfigured }
    /\ guessed = [ph \in Phones |-> 0]

NextGuess ==
    \/ Start(1, ConcRawPhones, ConcRawCodes, Unbounded)
    \/ Step(1, ConcDraws)
    \/ Tick(MaxTime)

SpecGuess == InitGuess /\ [][NextGuess]_vars

\* ------------------------------------------------------------------ tokens
\* A compact JWT is modelled by its parts: the header's alg, the claims, and
\* the signature as the MAC of header and claims under a key; `parts` is the
\* number of dot-separated segments of the string.  Token time is in hours.
ServerSecret == "server-secret"
OtherSecret == "other-secret"
HMACMethods == {"HS256", "HS384", "HS512"}
NoClaims == [nil |-> TRUE]

MAC(alg, claims, key) == [alg |-> alg, claims |-> claims, key |-> key]

\* jwt.NewWithClaims(method, claims).SignedString(key)
SignedString(alg, claims, key) ==
    [ parts |-> 3, alg |-> alg, claims |-> claims, sig |-> MAC(alg, claims, key) ]

\* JWTManager.GenerateToken at time t.
GenerateTokenAt(secretKey, expiryHours, t, userID, phoneNumber) ==
    SignedString("HS256",
                 [ user_id |-> userID, phone_number |-> phoneNumber,
                   exp |-> t + expiryHours, iat |-> t, nbf |-> t ],
                 secretKey)

\* A ValidateToken that checks the claims before the signature.
ValidateTokenClaimsFirst(tokenString, secretKey, t) ==
    IF tokenString.parts # 3 THEN << NoClaims, "InvalidToken" >>
    ELSE IF tokenString.alg \notin HMACMethods THEN << NoClaims, "InvalidToken" >>
    ELSE IF ~(t < tokenString.claims.exp) THEN << NoClaims, "TokenExpired" >>
    ELSE IF tokenString.sig # MAC(tokenString.alg, tokenString.claims, secretKey)
         THEN << NoClaims, "InvalidToken" >>
    ELSE IF t < tokenString.claims.nbf THEN << NoClaims, "InvalidToken" >>
    ELSE << tokenString.claims, "" >>

\* JWTManager.ValidateToken at time t: <<claims, error>>.  ParseWithClaims
\* splits the string, asks the key function (HMAC methods only), verifies
\* the signature and then the claims: exp (expired from exp on) and nbf.
ValidateToken(tokenString, secretKey, t) ==
    IF tokenString.parts # 3 THEN << NoClaims, "InvalidToken" >>
    ELSE IF tokenString.alg \notin HMACMethods THEN << NoClaims, "InvalidToken" >>
    ELSE IF tokenString.sig # MAC(tokenString.alg, tokenString.claims, secretKey)
         THEN << NoClaims, "InvalidToken" >>
    ELSE IF ~(t < tokenString.claims.exp) THEN << NoClaims, "TokenExpired" >>
    ELSE IF t < tokenString.claims.nbf THEN << NoClaims, "InvalidToken" >>
    ELSE << tokenString.claims, "" >>

\* strings.ToLower on the schemes of the runs.
ToLower(s) == IF s \in {"Bearer", "BEARER", "bearer"} THEN "bearer" ELSE "basic"

\* The Authorization header as strings.Fields splits it; no field at all
\* for a request without the header.  "tok" stands for the string of the
\* run's token, any other word is no JWT.
AuthHeaders ==
    { << >>, << "Bearer" >>, << "tok" >>, << "Bearer", "tok", "x" >>,
      << "Bearer", "invalid.jwt.token" >> }
    \cup { << scheme, "tok" >> : scheme \in {"Bearer", "bearer", "BEARER", "Basic"} }

\* The parts of the string a header field holds.
TokenParts(field) ==
    IF field = "tok" THEN loc[1].token
    ELSE [ parts |-> 1, alg |-> "", claims |-> NoClaims, sig |-> NoClaims ]

\* A RequireAuth that takes the second of two fields as the token whatever
\* the first one is.
RequireAuthAnyScheme(fields, secretKey, t) ==
    IF fields = << >> THEN [ status |-> 401, next |-> FALSE, locals |-> NoClaims ]
    ELSE IF Len(fields) # 2
         THEN [ status |-> 401, next |-> FALSE, locals |-> NoClaims ]
    ELSE LET v == ValidateToken(TokenParts(fields[2]), secretKey, t)
         IN IF v[2] # "" THEN [ status |-> 401, next |-> FALSE, locals |-> NoClaims ]
            ELSE [ status |-> NoStatus, next |-> TRUE,
                   locals |-> [ user_id |-> v[1].user_id,
                                phone_number |-> v[1].phone_number ] ]

\* AuthMiddleware.RequireAuth: the response it writes, or c.Next() with the
\* locals it has set.
RequireAuth(fields, secretKey, t) ==
    IF fields = << >> THEN [ status |-> 401, next |-> FALSE, locals |-> NoClaims ]
    ELSE IF Len(fields) # 2 \/ ToLower(fields[1]) # "bearer"
         THEN [ status |-> 401, next |-> FALSE, locals |-> NoClaims ]
    ELSE LET v == ValidateToken(TokenParts(fields[2]), secretKey, t)
         IN IF v[2] # "" THEN [ status |-> 401, next |-> FALSE, locals |-> NoClaims ]
            ELSE [ status |-> NoStatus, next |-> TRUE,
                   locals |-> [ user_id |-> v[1].user_id,
                                phone_number |-> v[1].phone_number ] ]

\* The life of one token: whom it is for, what was done to it, the clock,
\* and what ValidateToken or RequireAuth made of it.
HalfExpiry == JWTExpiryHours \div 2

JwtCall(userID, phoneNumber) ==
    [ op |-> "jwt", pc |-> "start", uid |-> userID, phone |-> phoneNumber,
      key |-> "", forged |-> "", token |-> NoKey, at |-> 0, header |-> << >>,
      claims |-> NoClaims, error |-> "", status |-> NoStatus, next |-> FALSE,
      locals |-> NoClaims ]

InitJwt ==
    /\ now = 0
    /\ otp = [ph \in Phones |-> NoKey]
    /\ rate = [ph \in Phones |-> NoKey]
    /\ users = [ph \in Phones |-> 0]
    /\ nextID = 1
    /\ \E uid \in 1..2 : \E ph \in Phones :
          loc = [p \in Procs |-> IF p = 1 THEN JwtCall(uid, ph) ELSE IdleLoc]
    /\ obs = [p \in Procs |-> IdleObs]
    /\ sentOK = [ph \in Phones |-> 0]
    /\ lastIssueAt = [ph \in Phones |-> Never]
    /\ rejSince = [ph \in Phones |-> FALSE]
    /\ cmpCount = [i \in Ids |-> 0]
    /\ accCount = [i \in Ids |-> 0]
    /\ calls = 0
    /\ faults = 0
    /\ config = DefaultConfig
    /\ guessed = [ph \in Phones |-> Untracked]

JwtFrame ==
    UNCHANGED << now, otp, rate, users, nextID, obs, sentOK, lastIssueAt, rejSince,
                 cmpCount, accCount, calls, faults, config, guessed >>

\* GenerateToken by a manager that holds `key`.
JwtIssue(key) ==
    /\ loc[1].pc = "start"
    /\ loc' = [loc EXCEPT ![1] =
                  [@ EXCEPT !.pc = "issued", !.key = key,
                            !.token = GenerateTokenAt(key, JWTExpiryHours, loc[1].at,
                                                      loc[1].uid, loc[1].phone)]]
    /\ JwtFrame

\* Someone without the key alters the token: cuts a segment off, sets the
\* header to an unsigned or asymmetric method, or changes the user ID.
JwtForge(kind) ==
    /\ loc[1].pc = "issued"
    /\ loc[1].forged = ""
    /\ LET tok == loc[1].token
       IN loc' = [loc EXCEPT ![1] =
                     [@ EXCEPT !.forged = kind,
                               !.token = IF kind = "cut" THEN [tok EXCEPT !.parts = 2]
                                         ELSE IF kind = "none" THEN [tok EXCEPT !.alg = "none"]
                                         ELSE IF kind = "rs256"
                                              THEN SignedString("RS256", tok.claims, "public")
                                         ELSE [tok EXCEPT !.claims.user_id = @ + 1]]]
    /\ JwtFrame

\* Half an expiry period passes.
JwtWait ==
    /\ loc[1].pc \in {"start", "issued"}
    /\ loc[1].at < MaxJwtWaits * HalfExpiry
    /\ loc' = [loc EXCEPT ![1] = [@ EXCEPT !.at = @ + HalfExpiry]]
    /\ JwtFrame

\* ValidateToken by the server's manager.
JwtValidate ==
    /\ loc[1].pc = "issued"
    /\ LET v == ValidateToken(loc[1].token, ServerSecret, loc[1].at)
       IN loc' = [loc EXCEPT ![1] = [@ EXCEPT !.pc = "validated", !.claims = v[1],
                                               !.error = v[2]]]
    /\ JwtFrame

\* A request to a user route with or without the token in its header; the
\* route's handler runs when RequireAuth calls c.Next().
JwtRequest(fields) ==
    /\ loc[1].pc = "issued"
    /\ LET r == RequireAuth(fields, ServerSecret, loc[1].at)
       IN loc' = [loc EXCEPT ![1] = [@ EXCEPT !.pc = "answered", !.header = fields,
                                               !.status = IF r.next THEN 200 ELSE r.status,
                                               !.next = r.next, !.locals = r.locals]]
    /\ JwtFrame

NextJwt ==
    \/ \E key \in {ServerSecret, OtherSecret} : JwtIssue(key)
    \/ \E kind \in {"cut", "none", "rs256", "claims"} : JwtForge(kind)
    \/ JwtWait
    \/ JwtValidate
    \/ \E fields \in AuthHeaders : JwtRequest(fields)

SpecJwt == InitJwt /\ [][NextJwt]_vars

\* One call at a time, for two subscribers, MaxCalls calls in all.
NextTwo ==
    \/ Start(1, TwoRawPhones, ConcRawCodes, MaxCalls)
    \/ Step(1, ConcDraws)
    \/ Return(1)
    \/ Tick(MaxTimeConc)

SpecTwo == Init /\ [][NextTwo]_vars

\* One call at a time, MaxCalls calls in all, under any configuration.
NextConfig ==
    \/ Start(1, ConcRawPhones, ConcRawCodes, MaxCalls)
    \/ Step(1, ConcDraws)
    \/ Return(1)
    \/ Tick(MaxTimeConc)

SpecConfig == InitConfig /\ [][NextConfig]_vars

\* ValidateAndNormalizePhone called on its own.
CallValidateAndNormalizePhone ==
    /\ loc[1].op = "ValidateAndNormalizePhone"
    /\ loc[1].pc = "call"
    /\ LET v == ValidateAndNormalizePhone(loc[1].raw)
       IN loc' = [loc EXCEPT ![1] = [@ EXCEPT !.pc = "returned", !.value = v[1],
                                               !.error = v[2]]]
    /\ UNCHANGED << now, otp, rate, users, nextID, obs, sentOK, lastIssueAt, rejSince,
                    cmpCount, accCount, calls, faults, config, guessed >>

\* GenerateOTP called on its own, the random source not failing.
CallGenerateOTP ==
    /\ loc[1].op = "GenerateOTP"
    /\ loc[1].pc = "call"
    /\ LET g == GenerateOTPErr(loc[1].length, loc[1].draws)
       IN loc' = [loc EXCEPT ![1] = [@ EXCEPT !.pc = "returned", !.value = g[1],
                                               !.error = g[2]]]
    /\ UNCHANGED << now, otp, rate, users, nextID, obs, sentOK, lastIssueAt, rejSince,
                    cmpCount, accCount, calls, faults, config, guessed >>

NextUtil ==
    \/ CallValidateAndNormalizePhone
    \/ CallGenerateOTP

SpecUtil == InitUtil /\ [][NextUtil]_vars

\* ------------------------------------------------------------- properties
\* The store calls of a SendOTP that succeeds, in the order of its code.
SendOrder == << "GetRateLimitCount", "StoreOTP", "IncrementRateLimit" >>

IsPrefix(s, t) == Len(s) <= Len(t) /\ \A i \in 1..Len(s) : s[i] = t[i]

\* Caller p's call has made the rate limit check of SendOTP.
PastRateCheck(p) ==
    loc[p].op = "send" /\ Len(loc[p].ops) > 0 /\ loc[p].ops[1] = "GetRateLimitCount"

\* Caller p's VerifyOTP was given a valid phone and a well-formed code.
WellFormed(p) == loc[p].op = "verify" /\ loc[p].phone # NoPhone /\ loc[p].code # NoCode

\* C1: with one call at a time, a VerifyOTP that follows a successful SendOTP
\* for the same phone and submits the issued code before it expires returns
\* success with a session, and a VerifyOTP that follows a successful VerifyOTP
\* for the same phone with the same code returns OTPExpired.
C1_VerifyOnce ==
    \A p \in Procs :
        ( /\ loc[p].pc = "done"
          /\ WellFormed(p)
          /\ obs[p].prev.result = "OK"
          /\ obs[p].prev.phone = loc[p].phone
          /\ obs[p].prev.code = loc[p].code )
        => /\ (obs[p].prev.op = "send" /\ obs[p].fresh)
                => (loc[p].result = "OK" /\ loc[p].token # NoKey)
           /\ obs[p].prev.op = "verify" => loc[p].result = "OTPExpired"

\* The second verification with the code that was just accepted has returned.
C1_Witness ==
    /\ loc[1].pc = "done"
    /\ WellFormed(1)
    /\ obs[1].prev.op = "verify"
    /\ obs[1].prev.result = "OK"
    /\ obs[1].prev.code = loc[1].code
    /\ loc[1].result = "OTPExpired"
    /\ users[loc[1].phone] # 0

\* C2: no challenge is accepted by more than one VerifyOTP.
C2_AcceptedOnce == \A i \in Ids : accCount[i] <= 1

\* C3: with one call at a time, a SendOTP that has made its rate limit check
\* is rejected with RateLimitExceeded exactly when the live counter has seen
\* MaxRequestsPerWindow successful issuances or more.
C3_RejectedAtLimit ==
    \A p \in Procs :
        PastRateCheck(p) =>
            ( loc[p].result = "RateLimitExceeded"
              <=> (obs[p].winAlive /\ obs[p].winSent >= MaxRequestsPerWindow) )

\* The request that follows MaxRequestsPerWindow issuances has been rejected.
C3_Witness ==
    /\ loc[1].pc = "done"
    /\ PastRateCheck(1)
    /\ obs[1].winSent = MaxRequestsPerWindow
    /\ loc[1].result = "RateLimitExceeded"

\* C4: the SendOTP successes for a phone during the life of its rate counter
\* never exceed MaxRequestsPerWindow.
C4_IssuedWithinLimit == \A ph \in Phones : sentOK[ph] <= MaxRequestsPerWindow

\* C5: with one call at a time, a SendOTP that makes its rate limit check a
\* full window or more after the last successful issuance reads a count of 0,
\* is not rejected, sets the counter to 1 and returns success, also when
\* requests were rejected in between.
C5_WindowReopens ==
    \A p \in Procs :
        (PastRateCheck(p) /\ obs[p].elapsed) =>
            /\ loc[p].result # "RateLimitExceeded"
            /\ loc[p].pc \in {"s_store", "s_incr", "s_log"} => loc[p].count = 0
            /\ loc[p].pc \in {"s_log", "done"} => obs[p].incrTo = 1
            /\ loc[p].pc = "done" => loc[p].result = "OK"

\* A phone that was rate limited, and rejected since, has been issued a code
\* after the window.
C5_Witness ==
    /\ loc[1].pc = "done"
    /\ PastRateCheck(1)
    /\ obs[1].elapsed
    /\ obs[1].rejSince
    /\ loc[1].result = "OK"
    /\ rate[loc[1].phone] # NoKey
    /\ rate[loc[1].phone].count = 1

\* C6: the steps of a SendOTP that is rejected with RateLimitExceeded (its
\* validation and its rate limit check) leave the challenges, the rate
\* counters with their expiries and the users as they are; the call generates
\* no code, emits nothing and makes no store call but GetRateLimitCount.
C6_RejectedChangesNothing ==
    [][\A p \in Procs :
          /\ ( /\ loc'[p] # loc[p]
               /\ loc'[p].op = "send"
               /\ loc'[p].pc = "s_rate" )
             => UNCHANGED << otp, rate, users, nextID >>
          /\ ( /\ loc'[p] # loc[p]
               /\ loc'[p].op = "send"
               /\ loc'[p].result = "RateLimitExceeded" )
             => /\ UNCHANGED << otp, rate, users, nextID >>
                /\ loc'[p].code = NoCode
                /\ obs'[p].emitted = <<>>
                /\ loc'[p].ops = << "GetRateLimitCount" >>]_vars

\* A SendOTP has been rejected while a challenge of the phone is in the store.
C6_Witness ==
    /\ loc[1].pc = "done"
    /\ loc[1].op = "send"
    /\ loc[1].result = "RateLimitExceeded"
    /\ otp[loc[1].phone] # NoKey
    /\ rate[loc[1].phone] # NoKey
    /\ rate[loc[1].phone].count = MaxRequestsPerWindow

\* C7: a call whose phone fails validation returns InvalidPhoneNumber in its
\* first step, makes no store call and leaves challenges, rate counters and
\* users as they are.
C7_InvalidPhoneTouchesNothing ==
    [][\A p \in Procs :
          ( /\ loc'[p] # loc[p]
            /\ loc'[p].op \in {"send", "verify"}
            /\ PhoneCheck[loc'[p].raw][2] # "" )
          => /\ loc'[p].pc = "done"
             /\ loc'[p].result = "InvalidPhoneNumber"
             /\ loc'[p].ops = <<>>
             /\ obs'[p].emitted = <<>>
             /\ UNCHANGED << otp, rate, users, nextID >>]_vars

\* A VerifyOTP with an invalid phone has returned while the phone used before
\* has a challenge and a rate counter.
C7_Witness ==
    /\ loc[1].pc = "done"
    /\ loc[1].op = "verify"
    /\ loc[1].result = "InvalidPhoneNumber"
    /\ \E ph \in Phones : otp[ph] # NoKey /\ rate[ph] # NoKey

\* C8: with one call at a time, a VerifyOTP that finds a live challenge with
\* MaxAttempts attempts or more compares nothing, issues no session, deletes
\* the challenge and returns TooManyAttempts.
C8_TooManyAttempts ==
    \A p \in Procs :
        (WellFormed(p) /\ obs[p].found /\ obs[p].attempts >= MaxAttempts) =>
            /\ ~obs[p].compared
            /\ loc[p].token = NoKey
            /\ loc[p].pc \in {"v_toomany", "done"}
            /\ loc[p].pc = "done" =>
                  /\ loc[p].result = "TooManyAttempts"
                  /\ loc[p].ops = << "GetOTP", "DeleteOTP" >>
                  /\ otp[loc[p].phone] = NoKey

\* The correct code has been refused with TooManyAttempts.
C8_Witness ==
    /\ loc[1].pc = "done"
    /\ WellFormed(1)
    /\ obs[1].found
    /\ obs[1].attempts >= MaxAttempts
    /\ obs[1].same
    /\ loc[1].result = "TooManyAttempts"

\* C9: with one call at a time, a wrong well-formed code submitted against a
\* live challenge returns InvalidOTP while fewer than MaxAttempts - 1 codes
\* were compared before, InvalidOTP or TooManyAttempts when MaxAttempts - 1
\* were, and TooManyAttempts with the challenge gone when MaxAttempts were;
\* never are more compared; the VerifyOTP after a TooManyAttempts returns
\* OTPExpired.
C9_WrongCodes ==
    \A p \in Procs :
        (loc[p].pc = "done" /\ WellFormed(p)) =>
            /\ (obs[p].found /\ ~obs[p].same) =>
                  /\ obs[p].nth < MaxAttempts - 1 => loc[p].result = "InvalidOTP"
                  /\ obs[p].nth = MaxAttempts - 1 =>
                        loc[p].result \in {"InvalidOTP", "TooManyAttempts"}
                  /\ obs[p].nth >= MaxAttempts =>
                        /\ obs[p].nth = MaxAttempts
                        /\ loc[p].result = "TooManyAttempts"
                        /\ otp[loc[p].phone] = NoKey
            /\ ( /\ obs[p].prev.op = "verify"
                 /\ obs[p].prev.result = "TooManyAttempts"
                 /\ obs[p].prev.phone = loc[p].phone )
               => loc[p].result = "OTPExpired"

\* A verification after the one that met too many attempts has returned.
C9_Witness ==
    /\ loc[1].pc = "done"
    /\ WellFormed(1)
    /\ obs[1].prev.op = "verify"
    /\ obs[1].prev.result = "TooManyAttempts"
    /\ loc[1].result = "OTPExpired"

\* C10: no more than MaxAttempts submitted codes are compared against one
\* challenge.
C10_ComparedWithinLimit == \A i \in Ids : cmpCount[i] <= MaxAttempts

\* Caller p's VerifyOTP has compared a wrong code: it is in IncrementAttempts.
Incrementing(p) == loc[p].pc \in {"ia_get", "ia_getdel", "ia_ttl", "ia_set"}

\* C11: with one call at a time, a VerifyOTP whose well-formed code differs
\* from the code of a live challenge with fewer than MaxAttempts attempts goes
\* on to increment the attempts and returns InvalidOTP; until it returns the
\* challenge is as it was, and when it returns the challenge, unless its
\* expiry was reached meanwhile, is the one found with the same code and
\* expiry time and one attempt more.
C11_MismatchCounts ==
    [][\A p \in Procs :
          /\ ( /\ loc[p].pc = "v_get"
               /\ loc'[p].pc # "v_get"
               /\ obs'[p].compared
               /\ ~obs'[p].same )
             => (loc'[p].pc = "ia_get" /\ UNCHANGED otp)
          /\ (Incrementing(p) /\ loc'[p] # loc[p]) =>
                IF loc'[p].pc = "done"
                THEN /\ loc'[p].result = "InvalidOTP"
                     /\ loc'[p].token = NoKey
                     /\ obs'[p].notFound <=> otp'[loc[p].phone] = NoKey
                     /\ ~obs'[p].notFound =>
                           otp'[loc[p].phone].val =
                               [loc[p].stored EXCEPT !.attempts = @ + 1]
                ELSE Incrementing(p)' /\ (loc[p].pc # "ia_getdel" => UNCHANGED otp)]_vars

\* A wrong code has been refused and the challenge has one attempt more.
C11_Witness ==
    /\ loc[1].pc = "done"
    /\ WellFormed(1)
    /\ obs[1].compared
    /\ ~obs[1].same
    /\ ~obs[1].notFound
    /\ loc[1].result = "InvalidOTP"
    /\ otp[loc[1].phone] # NoKey
    /\ otp[loc[1].phone].val.attempts = obs[1].attempts + 1

\* C12: the write of IncrementAttempts leaves the challenge with the expiry
\* time it had and with a store expiry at that time: the expiry is neither
\* extended nor removed.
C12_ExpiryPreserved ==
    [][\A p \in Procs :
          (loc[p].pc = "ia_set" /\ loc'[p].pc = "done") =>
              /\ otp'[loc[p].phone] # NoKey
              /\ otp'[loc[p].phone].val.expiresAt = loc[p].inc.expiresAt
              /\ otp'[loc[p].phone].exp = loc[p].inc.expiresAt]_vars

\* C13: with one call at a time, a VerifyOTP that fetches a record whose
\* expiry time has passed compares nothing, issues no session, deletes the
\* record and returns OTPExpired; and a VerifyOTP that follows a successful
\* SendOTP for the phone and fetches when the issued code is no longer before
\* its expiry returns OTPExpired.
C13_ExpiredRefused ==
    \A p \in Procs :
        /\ (loc[p].op = "verify" /\ obs[p].stale) =>
              /\ ~obs[p].compared
              /\ loc[p].token = NoKey
              /\ loc[p].pc \in {"v_getdel", "done"}
              /\ loc[p].pc = "done" =>
                    /\ loc[p].result = "OTPExpired"
                    /\ loc[p].ops = << "GetOTP", "DeleteOTP" >>
                    /\ otp[loc[p].phone] = NoKey
        /\ ( /\ loc[p].pc = "done"
             /\ WellFormed(p)
             /\ obs[p].prev.op = "send"
             /\ obs[p].prev.result = "OK"
             /\ obs[p].prev.phone = loc[p].phone
             /\ ~obs[p].fresh )
           => (loc[p].result = "OTPExpired" /\ loc[p].token = NoKey)

\* The stored code has been submitted for a record that the store still held
\* past its expiry time, and refused.
C13_Witness ==
    /\ loc[1].pc = "done"
    /\ WellFormed(1)
    /\ obs[1].stale
    /\ obs[1].same
    /\ loc[1].result = "OTPExpired"

\* Caller p's call was given a valid phone and a code that fails validation.
BadCode(l) ==
    /\ l.op = "verify"
    /\ PhoneCheck[l.raw][2] = ""
    /\ CodeCheck[l.rawCode][2] # ""

C15_AcceptedIsDeleted ==
    \A p \in Procs :
        (loc[p].pc = "done" /\ loc[p].op = "verify" /\ loc[p].result = "OK") =>
            otp[loc[p].phone] = NoKey

\* C20: a call in which a store command has failed makes no further store
\* call and returns a failure that is none of the errors of the taxonomy.
C20_FailureSurfaced ==
    \A p \in Procs :
        obs[p].failed => (loc[p].pc = "done" /\ loc[p].result = "StoreFailure")

\* C16: with one call at a time, the step in which VerifyOTP returns success
\* gives a token that carries the verified phone and the ID of the phone's
\* user: for a phone that has a user it is that user's ID and no user is
\* created; for one that has none exactly one user is created, for this
\* phone, and the other users stay as they are.
C16_IdentityResolved ==
    [][\A p \in Procs :
          /\ (loc[p].pc = "v_user" /\ loc'[p].pc = "v_create") =>
                (users[loc[p].phone] = 0 /\ UNCHANGED << users, nextID >>)
          /\ ( /\ loc[p].pc \in {"v_user", "v_create"}
               /\ loc'[p].pc = "done" )
             => LET ph == loc[p].phone IN
                /\ loc'[p].result = "OK"
                /\ loc'[p].token # NoKey
                /\ loc'[p].token.phone = ph
                /\ loc'[p].token.uid = users'[ph]
                /\ loc'[p].token.uid # 0
                /\ users[ph] # 0 => UNCHANGED << users, nextID >>
                /\ users[ph] = 0 =>
                      /\ users' = [users EXCEPT ![ph] = nextID]
                      /\ nextID' = nextID + 1]_vars

\* A session has been issued to a phone that had a user before the call.
C16_Witness ==
    /\ loc[1].pc = "done"
    /\ loc[1].op = "verify"
    /\ loc[1].result = "OK"
    /\ obs[1].existed
    /\ loc[1].token.uid = users[loc[1].phone]
    /\ nextID = 2

\* C17: with one call at a time, the store write of SendOTP leaves the phone
\* with one challenge whatever was there: the code just generated, no
\* attempts, the expiry a full ExpiryMinutes from now in the record and in the
\* store; and a VerifyOTP that follows a successful SendOTP for the phone is
\* accepted only with the code of that SendOTP.
C17_IssuanceReplaces ==
    [][\A p \in Procs :
          /\ (loc[p].pc = "s_store" /\ loc'[p].pc = "s_incr") =>
                LET k == otp'[loc[p].phone] IN
                /\ k # NoKey
                /\ k.val.phone = loc[p].phone
                /\ k.val.code = loc'[p].code
                /\ Len(k.val.code) = OTPLength
                /\ k.val.attempts = 0
                /\ k.val.expiresAt = now + Minutes(ExpiryMinutes)
                /\ k.exp = now + Minutes(ExpiryMinutes)
                /\ \A other \in Phones \ {loc[p].phone} : otp'[other] = otp[other]
          /\ ( /\ loc'[p] # loc[p]
               /\ loc'[p].pc = "done"
               /\ loc'[p].op = "verify"
               /\ loc'[p].result = "OK"
               /\ obs'[p].prev.op = "send"
               /\ obs'[p].prev.phone = loc'[p].phone )
             => loc'[p].code = obs'[p].prev.code]_vars

\* A SendOTP has returned success after it replaced a challenge that had
\* attempts counted; the phone's challenge has none.
C17_Witness ==
    /\ loc[1].pc = "done"
    /\ loc[1].op = "send"
    /\ loc[1].result = "OK"
    /\ obs[1].replaced
    /\ otp[loc[1].phone] # NoKey
    /\ otp[loc[1].phone].val.code = loc[1].code
    /\ otp[loc[1].phone].val.attempts = 0

\* What an observer sees of a verification: the positions the comparison
\* reads, the store calls made so far, the result.
Observed(p) == << obs[p].steps, loc[p].ops, loc[p].result >>

\* C18: with one call at a time, what is observed of a VerifyOTP that has
\* compared a wrong code is the same for every wrong code, wherever it first
\* differs from the stored code: the comparison reads all OTPLength positions,
\* the store calls are GetOTP and then IncrementAttempts, the result is
\* InvalidOTP.
C18_ConstantTime ==
    \A p \in Procs :
        (loc[p].op = "verify" /\ obs[p].compared /\ ~obs[p].same) =>
            \/ Observed(p) = << [i \in 1..OTPLength |-> i], << "GetOTP" >>, "" >>
            \/ Observed(p) = << [i \in 1..OTPLength |-> i],
                                << "GetOTP", "IncrementAttempts" >>, "" >>
            \/ Observed(p) = << [i \in 1..OTPLength |-> i],
                                << "GetOTP", "IncrementAttempts" >>, "InvalidOTP" >>

\* A wrong code that differs from the stored code in its last position only
\* has been refused.
C18_Witness ==
    /\ loc[1].pc = "done"
    /\ WellFormed(1)
    /\ obs[1].compared
    /\ ~obs[1].same
    /\ otp[loc[1].phone] # NoKey
    /\ FirstDiff(otp[loc[1].phone].val.code, loc[1].code) = OTPLength

\* C19: a VerifyOTP whose IncrementAttempts finds no challenge any more
\* returns OTPExpired.
C19_NotFoundIsExpired ==
    \A p \in Procs :
        (loc[p].pc = "done" /\ loc[p].op = "verify" /\ obs[p].notFound) =>
            loc[p].result = "OTPExpired"

\* C21: when the random source fails while SendOTP generates the code, the
\* call returns an error in that step, with no code and no store call after
\* the rate limit check: no challenge is written, the rate counter is as it
\* was, and nothing is emitted.  A call that goes on to the rate increment
\* has stored a code of the full length.
C21_RandomFailure ==
    [][\A p \in Procs :
          /\ (loc[p].pc = "s_store" /\ loc'[p].ops = loc[p].ops /\ loc'[p] # loc[p]) =>
                /\ loc'[p].pc = "done"
                /\ loc'[p].result = "GenerateFailure"
                /\ loc'[p].code = NoCode
                /\ loc'[p].ops = << "GetRateLimitCount" >>
                /\ obs'[p].emitted = << >>
                /\ UNCHANGED << otp, rate, sentOK, lastIssueAt >>
          /\ (loc[p].pc = "s_store" /\ loc'[p].pc = "s_incr") =>
                /\ Len(loc'[p].code) = OTPLength
                /\ otp'[loc[p].phone] # NoKey
                /\ otp'[loc[p].phone].val.code = loc'[p].code
    ]_vars

\* A call has ended with the generation failure while the phone's earlier
\* challenge and its rate counter are in the store.
C21_Witness ==
    \E p \in Procs :
        /\ loc[p].pc = "done"
        /\ loc[p].result = "GenerateFailure"
        /\ otp[loc[p].phone] # NoKey
        /\ rate[loc[p].phone] # NoKey

\* C22: with concurrent callers, a phone's rate counter changes only in an
\* IncrementRateLimit step of a call for that phone, which raises the count
\* at that instant by exactly one and leaves the counter with an expiry, or
\* when the store drops the counter at its expiry; so k increments, however
\* they interleave, raise the count by k, and no counter is without expiry.
C22_AtomicIncrement ==
    [][\A ph \in Phones :
          /\ rate'[ph] # NoKey => rate'[ph].exp # NoTTL
          /\ \A p \in Procs :
                (loc[p].pc = "s_incr" /\ loc[p].phone = ph /\ loc'[p].pc = "s_log") =>
                    /\ rate'[ph] # NoKey
                    /\ rate'[ph].count = RateCount(rate[ph]) + 1
          /\ rate'[ph] # rate[ph] =>
                \/ \E p \in Procs :
                      loc[p].pc = "s_incr" /\ loc[p].phone = ph /\ loc'[p].pc = "s_log"
                \/ rate'[ph] = NoKey /\ rate[ph].exp <= now'
    ]_vars

\* Two calls for one phone passed the rate limit check on an empty window
\* and both have incremented: the counter is 2.
C22_Witness ==
    \E p, q \in Procs :
        /\ p # q
        /\ loc[p].pc = "s_log" /\ loc[q].pc = "s_log"
        /\ loc[p].phone = loc[q].phone
        /\ loc[p].count = 0 /\ loc[q].count = 0
        /\ rate[loc[p].phone] # NoKey
        /\ rate[loc[p].phone].count = 2

\* C23: with one call at a time, every IncrementRateLimit step sets the
\* counter's expiry to a full rate limit window after the time of that step,
\* whatever expiry the counter had, and raises the count; between two such
\* steps the counter stays as it is, and it goes away exactly when that
\* expiry is reached, so while it exists its count never goes down.
C23_ExpiryRearmed ==
    [][\A ph \in Phones :
          LET incr == \E p \in Procs : /\ loc[p].pc = "s_incr"
                                       /\ loc[p].phone = ph
                                       /\ loc'[p].pc = "s_log"
          IN /\ incr => /\ rate'[ph] # NoKey
                        /\ rate'[ph].exp = now + Minutes(RateLimitWindowMinutes)
                        /\ rate'[ph].count > RateCount(rate[ph])
             /\ (~incr /\ rate'[ph] # rate[ph]) =>
                    (rate'[ph] = NoKey /\ now' = rate[ph].exp)
             /\ rate'[ph] # NoKey => now' < rate'[ph].exp
    ]_vars

\* A counter that an earlier issuance had armed has been incremented again
\* at a later time and expires a full window from now.
C23_Witness ==
    \E p \in Procs :
        /\ loc[p].pc = "s_log"
        /\ obs[p].incrTo >= 2
        /\ lastIssueAt[loc[p].phone] # Never
        /\ lastIssueAt[loc[p].phone] < now
        /\ rate[loc[p].phone].exp = now + Minutes(RateLimitWindowMinutes)

\* C24: with one call at a time and store commands that may fail, a SendOTP
\* makes its steps in the order validation, rate limit check, generation,
\* challenge write, counter increment, emission: a refused phone makes no
\* store call, a code exists only from the challenge write on, the counter
\* changes only in the step after a challenge write that was applied, the
\* emission comes after all three store calls, and a failed challenge write
\* ends the call with the counter as it was.
C24_IssuanceOrder ==
    [][\A p \in Procs :
          LET ph == loc[p].phone
              mine == /\ loc[p].op = "send" /\ loc[p].pc # "done" /\ ph \in Phones
                      /\ loc'[p] # loc[p]
          IN /\ loc'[p].op = "send" =>
                   /\ IsPrefix(loc'[p].ops, SendOrder)
                   /\ loc'[p].result = "InvalidPhoneNumber" => loc'[p].ops = << >>
                   /\ loc'[p].code # NoCode => Len(loc'[p].ops) >= 2
                   /\ obs'[p].emitted # << >> => loc'[p].ops = SendOrder
             /\ (mine /\ loc[p].pc = "s_store" /\ loc'[p].pc = "s_incr") =>
                   /\ otp'[ph] # NoKey
                   /\ otp'[ph].val.code = loc'[p].code
                   /\ otp'[ph].val.expiresAt = now + Minutes(ExpiryMinutes)
             /\ (mine /\ rate'[ph] # rate[ph]) =>
                   /\ loc[p].pc = "s_incr"
                   /\ loc[p].ops = << "GetRateLimitCount", "StoreOTP" >>
             /\ (mine /\ loc[p].pc = "s_store" /\ loc'[p].pc = "done") =>
                   /\ UNCHANGED << otp, rate >>
                   /\ obs'[p].emitted = << >>
                   /\ loc'[p].result \in {"StoreFailure", "GenerateFailure"}
    ]_vars

\* A SendOTP whose challenge write failed has ended, after an earlier one
\* had been counted: the counter still shows the one request.
C24_Witness ==
    \E p \in Procs :
        /\ loc[p].op = "send"
        /\ loc[p].pc = "done"
        /\ loc[p].result = "StoreFailure"
        /\ loc[p].ops = << "GetRateLimitCount", "StoreOTP" >>
        /\ rate[loc[p].phone] # NoKey
        /\ rate[loc[p].phone].count = 1

\* C25: with one call at a time for two subscribers, the keys of distinct
\* phones are distinct, every step of a call leaves the challenge and the
\* rate counter of every phone other than its own as they were, and what a
\* call decides follows from its own phone's entries alone: the rate limit
\* check from that phone's counter, the verification from that phone's
\* challenge and the submitted code.
C25_PhonesIndependent ==
    [][\A p \in Procs :
          LET ph == loc[p].phone
              k == otp[ph]
              dead == k = NoKey \/ now > k.val.expiresAt
          IN /\ \A a, b \in Phones :
                   /\ a # b => OTPKey(a) # OTPKey(b) /\ RateLimitKey(a) # RateLimitKey(b)
                   /\ OTPKey(a) # RateLimitKey(b)
             /\ loc'[p] # loc[p] =>
                   \A b \in Phones \ {loc'[p].phone} :
                       otp'[b] = otp[b] /\ rate'[b] = rate[b]
             /\ (loc[p].pc = "s_rate" /\ loc'[p] # loc[p]) =>
                   IF RateCount(rate[ph]) >= MaxAttempts
                   THEN loc'[p].pc = "done" /\ loc'[p].result = "RateLimitExceeded"
                   ELSE loc'[p].pc = "s_store"
             /\ (loc[p].pc = "v_get" /\ loc'[p] # loc[p]) =>
                   IF k = NoKey
                      THEN loc'[p].pc = "done" /\ loc'[p].result = "OTPExpired"
                   ELSE IF now > k.val.expiresAt THEN loc'[p].pc = "v_getdel"
                   ELSE IF k.val.attempts >= MaxAttempts THEN loc'[p].pc = "v_toomany"
                   ELSE IF k.val.code # loc[p].code THEN loc'[p].pc = "ia_get"
                   ELSE loc'[p].pc = "v_del"
    ]_vars

\* A request for one phone is refused at the rate limit while the other
\* phone has a challenge and a counter of one request.
C25_Witness ==
    \E p \in Procs : \E b \in Phones :
        /\ loc[p].pc = "done"
        /\ loc[p].result = "RateLimitExceeded"
        /\ b # loc[p].phone
        /\ otp[b] # NoKey
        /\ rate[b] # NoKey
        /\ rate[b].count = 1

\* The string without the white space before its first and after its last
\* character that is not white space.
Trimmed(s) ==
    LET keep == { i \in 1..Len(s) : s[i] \notin Space }
    IN IF keep = {} THEN <<>>
       ELSE SubSeq(s, CHOOSE i \in keep : \A j \in keep : i <= j,
                      CHOOSE i \in keep : \A j \in keep : i >= j)

\* A plus sign, a digit that is not zero, and 6 to 14 more digits.
PlusNonZeroDigits(s) ==
    /\ Len(s) \in 8..16
    /\ s[1] = "+"
    /\ s[2] \in Digit \ {"0"}
    /\ \A i \in 3..Len(s) : s[i] \in Digit

\* C26: ValidateAndNormalizePhone accepts a string exactly when the string
\* without its surrounding white space is a plus sign, a nonzero digit and 6
\* to 14 more digits; it then returns that trimmed string, and otherwise
\* InvalidPhoneNumber and no string.  The trimmed string given to it again
\* is returned as it is, and a refused string's trimmed form is refused too.
C26_PhoneValidation ==
    LET c == loc[1]
        t == Trimmed(c.raw)
    IN (c.op = "ValidateAndNormalizePhone" /\ c.pc = "returned") =>
          /\ (c.error = "") <=> PlusNonZeroDigits(t)
          /\ c.error = "" => c.value = t
          /\ c.error # "" => (c.error = "InvalidPhoneNumber" /\ c.value = <<>>)
          /\ ValidateAndNormalizePhone(t) = << c.value, c.error >>
          /\ c.error = "" => ValidateAndNormalizePhone(c.value) = << c.value, "" >>

\* A phone with white space around it has been accepted and returned
\* without it.
C26_Witness ==
    /\ loc[1].op = "ValidateAndNormalizePhone"
    /\ loc[1].pc = "returned"
    /\ loc[1].error = ""
    /\ loc[1].value # loc[1].raw
    /\ Len(loc[1].value) = 16

\* C27: a GenerateOTP that returns without error, called with a length of
\* zero or more, returns a string of exactly that many characters, each one
\* of the digits 0 to 9, the empty string for length zero; this holds for
\* the configured OTP length, with which SendOTP calls it.
C27_GeneratedDigits ==
    LET c == loc[1]
    IN (c.op = "GenerateOTP" /\ c.pc = "returned" /\ c.error = "") =>
          /\ c.length >= 0
          /\ Len(c.value) = c.length
          /\ \A i \in 1..Len(c.value) : c.value[i] \in Digit
          /\ c.length = 0 => c.value = <<>>

\* GenerateOTP has returned a code of the configured length that begins
\* with a digit other than the one it ends with.
C27_Witness ==
    /\ loc[1].op = "GenerateOTP"
    /\ loc[1].pc = "returned"
    /\ loc[1].error = ""
    /\ loc[1].length = OTPLength
    /\ Len(loc[1].value) = OTPLength
    /\ loc[1].value[1] # loc[1].value[OTPLength]

\* C28: whatever OTP_MAX_ATTEMPTS is set to, a SendOTP that has made its
\* rate limit check is rejected with RateLimitExceeded exactly when the live
\* counter has seen MaxRequestsPerWindow (3) successful issuances or more;
\* the setting bears on the verification attempt limit only.
C28_SeparateLimits ==
    \A p \in Procs :
        /\ PastRateCheck(p) =>
              ( loc[p].result = "RateLimitExceeded"
                <=> (obs[p].winAlive /\ obs[p].winSent >= MaxRequestsPerWindow) )
        /\ loc[p].result = "TooManyAttempts" => obs[p].attempts >= config.MaxAttempts

\* C29: with one call at a time and store commands that may fail, a SendOTP
\* has handed something to LogOTP exactly when it has returned success, and
\* then exactly one pair: its normalised phone and the code that it wrote to
\* the OTP store in its StoreOTP step and kept until LogOTP.  A SendOTP that
\* returns an error, and every VerifyOTP, emits nothing.
C29_EmittedOnSuccess ==
    [][\A p \in Procs :
          LET l == loc'[p]
              o == obs'[p]
          IN /\ l.op = "send" =>
                   ((l.pc = "done" /\ l.result = "OK") <=> o.emitted # << >>)
             /\ l.op # "send" => o.emitted = << >>
             /\ Len(o.emitted) <= 1
             /\ (o.emitted # << >> /\ o.emitted # obs[p].emitted) =>
                   /\ loc[p].pc = "s_log"
                   /\ o.emitted = << << loc[p].phone, loc[p].code >> >>
             /\ (loc[p].pc = "s_store" /\ l.pc = "s_incr") =>
                   /\ otp'[l.phone] # NoKey
                   /\ otp'[l.phone].val.code = l.code
             /\ (loc[p].pc = "s_incr" /\ l.pc = "s_log") =>
                   (l.code = loc[p].code /\ l.phone = loc[p].phone)
    ]_vars

\* After a store command failed in the run, a SendOTP has returned success
\* and has emitted the one pair of its phone and code.
C29_Witness ==
    \E p \in Procs :
        /\ loc[p].op = "send"
        /\ loc[p].pc = "done"
        /\ loc[p].result = "OK"
        /\ obs[p].emitted = << << loc[p].phone, loc[p].code >> >>
        /\ Len(loc[p].code) = OTPLength
        /\ faults > 0

\* C30: with one request at a time and store commands that may fail, every
\* response carries the status fixed for the outcome: 400 and no service
\* call for a body that does not parse, 429 for RateLimitExceeded, 400 for
\* InvalidPhoneNumber, 401 for InvalidOTP, OTPExpired and TooManyAttempts,
\* 200 for success and 500 for every other error; 200 answers success only.
C30_StatusOfOutcome ==
    \A p \in Procs :
        LET l == loc[p]
        IN l.pc = "responded" =>
              /\ l.status = ( IF l.result = "" THEN 400
                              ELSE IF l.result = "OK" THEN 200
                              ELSE IF l.result = "RateLimitExceeded" THEN 429
                              ELSE IF l.result = "InvalidPhoneNumber" THEN 400
                              ELSE IF l.result \in {"InvalidOTP", "OTPExpired",
                                                    "TooManyAttempts"} THEN 401
                              ELSE 500 )
              /\ l.result = "" => (l.ops = << >> /\ l.phone = NoPhone /\ l.code = NoCode)
              /\ l.status = 200 <=> l.result = "OK"

\* A verification in which the store failed has been answered with 500.
C30_Witness ==
    \E p \in Procs :
        /\ loc[p].pc = "responded"
        /\ loc[p].op = "verify"
        /\ loc[p].result = "StoreFailure"
        /\ loc[p].status = 500

\* The token of the run is as GenerateToken of the server's manager made it
\* and its expiry is still ahead.
JwtGenuine(c) == c.key = ServerSecret /\ c.forged = ""
JwtLive(c) == c.at < c.token.claims.exp

\* C31: the handler of a user route runs exactly when the request carries an
\* Authorization header of two fields, the word bearer in any case and a
\* token that ValidateToken accepts; it then has the token's user ID and
\* phone.  Every other request (no header, one or three fields, another
\* scheme, a token that is malformed, altered, signed with another secret
\* or expired) is answered 401 and the handler does not run.
C31_RequireAuth ==
    LET c == loc[1]
    IN (c.op = "jwt" /\ c.pc = "answered") =>
          /\ c.next <=> ( /\ Len(c.header) = 2
                          /\ c.header[1] \in {"Bearer", "bearer", "BEARER"}
                          /\ c.header[2] = "tok"
                          /\ JwtGenuine(c) /\ JwtLive(c) )
          /\ ~c.next => (c.status = 401 /\ c.locals = NoClaims)
          /\ c.next => c.locals = [user_id |-> c.uid, phone_number |-> c.phone]

\* A request with a lower-case scheme and a live token reached the handler.
C31_Witness ==
    /\ loc[1].op = "jwt"
    /\ loc[1].pc = "answered"
    /\ loc[1].next
    /\ loc[1].header[1] = "bearer"
    /\ loc[1].at > 0

\* C32: ValidateToken on a token that GenerateToken made under the same
\* secret, before its expiry, returns claims with the user ID and phone the
\* token was generated for; a token that is malformed, altered or signed
\* with another secret gives InvalidToken, expired or not, and a token of
\* the same secret from its expiry on gives TokenExpired.
C32_TokenRoundTrip ==
    LET c == loc[1]
    IN (c.op = "jwt" /\ c.pc = "validated") =>
          IF ~JwtGenuine(c)
          THEN c.error = "InvalidToken" /\ c.claims = NoClaims
          ELSE IF ~JwtLive(c)
          THEN c.error = "TokenExpired" /\ c.claims = NoClaims
          ELSE /\ c.error = ""
               /\ c.claims.user_id = c.uid
               /\ c.claims.phone_number = c.phone

\* A token kept for half its life has been validated and gave its claims.
C32_Witness ==
    /\ loc[1].op = "jwt"
    /\ loc[1].pc = "validated"
    /\ loc[1].error = ""
    /\ loc[1].at = HalfExpiry
    /\ loc[1].claims.user_id = loc[1].uid

\* C33: a phone's challenge that is gone from the store comes back only by
\* StoreOTP of a SendOTP for that phone; no step of a VerifyOTP creates one.
C33_NoResurrection ==
    [][\A ph \in Phones :
          (otp[ph] = NoKey /\ otp'[ph] # NoKey) =>
             \E p \in Procs : /\ loc[p].op = "send"
                              /\ loc[p].pc = "s_store"
                              /\ loc[p].phone = ph
                              /\ loc'[p].pc = "s_incr"]_vars

\* C34: the attempts of every stored challenge are between 0 and the
\* configured maxAttempts.
C34_AttemptsInRange ==
    \A ph \in Phones :
        otp[ph] # NoKey =>
            (0 <= otp[ph].val.attempts /\ otp[ph].val.attempts <= config.MaxAttempts)

\* C35: a DeleteOTP that a VerifyOTP runs (after a match, after too many
\* attempts, or in GetOTP for a challenge past its ExpiresAt) removes the
\* challenge that call read: a challenge stored since, which the call has
\* not read, stays in the store.
C35_DeletesWhatItRead ==
    [][\A p \in Procs :
          LET ph == loc[p].phone
              unread ==
                  IF loc[p].pc \in {"v_toomany", "v_del"}
                  THEN otp[ph].val.id # loc[p].stored.id
                  ELSE ~PastExpiry(otp[ph].val)
          IN ( /\ loc[p].op = "verify"
               /\ loc[p].pc \in {"v_toomany", "v_del", "v_getdel", "ia_getdel"}
               /\ loc'[p] # loc[p]
               /\ otp[ph] # NoKey
               /\ unread ) => otp'[ph] = otp[ph]]_vars

\* C36: no step of a VerifyOTP changes which code (or which challenge) is
\* stored for a phone: a stored challenge is replaced only by StoreOTP of a
\* SendOTP, so what is stored is what the last StoreOTP wrote, its attempts
\* apart.
C36_LatestCodeStored ==
    [][\A p \in Procs :
          LET ph == loc[p].phone
          IN ( /\ loc[p].op = "verify"
               /\ loc[p].pc = "ia_set"
               /\ loc'[p] # loc[p]
               /\ otp[ph] # NoKey ) =>
                    /\ otp'[ph].val.id = otp[ph].val.id
                    /\ otp'[ph].val.code = otp[ph].val.code
                    /\ otp'[ph].val.expiresAt = otp[ph].val.expiresAt]_vars

\* C37: when a SendOTP returns an error, the store holds for its phone what
\* it held when the call began: the call has not incremented the rate
\* counter, and the stored challenge is not one the call wrote (the code it
\* generated, with the expiry it set).
C37_ErrorLeavesNothing ==
    [][LET l == loc[1]
           ph == l.phone
       IN ( /\ l.op = "send"
            /\ l.pc # "done"
            /\ ph \in Phones
            /\ loc'[1].op = "send"
            /\ loc'[1].pc = "done"
            /\ loc'[1].result # "OK" ) =>
               /\ rate'[ph] = rate[ph]
               /\ obs[1].incrTo = 0
               /\ ~( /\ otp'[ph] # NoKey
                     /\ obs[1].issuedExp # Never
                     /\ otp'[ph].val.expiresAt = obs[1].issuedExp
                     /\ otp'[ph].val.code = l.code )]_vars

\* C38: a VerifyOTP that returns an error of the user repository (the
\* lookup or the creation failed after the code matched) returns no token
\* and leaves no challenge stored for its phone: the code cannot be tried
\* again.
C38_ConsumedBeforeIdentity ==
    [][LET l == loc[1]
       IN ( /\ l.op = "verify"
            /\ l.pc \in {"v_user", "v_create"}
            /\ loc'[1].pc = "done"
            /\ loc'[1].result = "UserFailure" ) =>
               /\ loc'[1].token = NoKey
               /\ otp'[l.phone] = NoKey]_vars

\* C39: a VerifyOTP call returns a token exactly when it succeeds, and then
\* its GetOTP found a challenge that was not past its expiry, had fewer
\* attempts than maxAttempts and held the submitted code; a user is created
\* only in the step that returns such a success, never by a call that
\* returns an error.
C39_TokenOnlyOnMatch ==
    [][/\ \A p \in Procs :
            LET l == loc'[p]
                o == obs'[p]
            IN (l.op = "verify" /\ l.pc = "done") =>
                  /\ (l.token # NoKey) <=> (l.result = "OK")
                  /\ (l.result = "OK") =>
                        /\ o.found /\ ~o.stale /\ o.compared /\ o.same
                        /\ o.attempts < config.MaxAttempts
       /\ (users' # users \/ nextID' # nextID) =>
             \E p \in Procs :
                 /\ loc[p].op = "verify"
                 /\ loc[p].pc = "v_create"
                 /\ loc'[p].pc = "done"
                 /\ loc'[p].result = "OK"
                 /\ loc'[p].token = [uid |-> users'[loc[p].phone],
                                     phone |-> loc[p].phone]]_vars

\* A verification created a user and returned a token for it in a run in
\* which a command has failed.
C39_Witness ==
    /\ loc[1].op = "verify"
    /\ loc[1].pc = "done"
    /\ loc[1].result = "OK"
    /\ loc[1].token # NoKey
    /\ ~obs[1].existed
    /\ users[loc[1].phone] # 0
    /\ faults > 0

\* C40: with one call at a time, while a phone's rate counter is alive the
\* codes compared against the phone's stored codes since the counter came
\* to life number at most maxRequestsPerWindow times the configured
\* maxAttempts.
C40_GuessBudget ==
    \A ph \in Phones :
        rate[ph] # NoKey => guessed[ph] <= MaxRequestsPerWindow * config.MaxAttempts

====
